---- MODULE Spec2Model ----
(***************************************************************************)
(* Invoice numbering and document lifecycle of module-invoicing.           *)
(*                                                                         *)
(* The persisted state is the tables invoicing_series, invoicing_invoice,  *)
(* invoicing_line and invoicing_settings.  Every request handler of        *)
(* views.py is a sequence of                                               *)
(* SQL statements with in-memory work between them: no handler opens a     *)
(* transaction, takes a row lock or uses an F() expression, so each        *)
(* statement is one atomic step and the statements of concurrent requests  *)
(* interleave.  A request in flight is a record of the bag reqs holding    *)
(* its position and the model instances it has loaded.                     *)
(***************************************************************************)
EXTENDS Integers, Sequences, FiniteSets, Bags, TLC

VARIABLES
    series,     \* table invoicing_series: sequence of rows, pk = index
    invoices,   \* table invoicing_invoice: sequence of rows, pk = index
    reqs,       \* bag of the requests in flight
    today,      \* the current date (timezone.now().date())
    returned,   \* the strings one caller got from consecutive get_next_number calls
    started,    \* requests that got past their first query so far
    lines,      \* table invoicing_line: sequence of rows, pk = index
    rounding,   \* how the database rounds a decimal to the column's scale
    settings,   \* table invoicing_settings: sequence of rows, pk = index
    hook_calls  \* the hooks run so far through apps.core.hooks, in order

vars == <<series, invoices, reqs, today, returned, started, lines, rounding,
          settings, hook_calls>>

\* what the document and series handlers never write
aside == <<rounding, settings, hook_calls>>

\* ------------------------------------------------------------------ bounds
MaxInvoices == 2    \* documents ever created
MaxRequests == 2    \* requests in flight at once
MaxDay == 2         \* days the clock runs through
MaxCalls == 11      \* consecutive get_next_number calls of one caller
MaxStarted == 6     \* requests served in one run
MaxSeries == 3      \* rows of invoicing_series
MaxStatusStarted == 4   \* requests served in one run of SpecStatus
MaxLines == 2       \* rows of invoicing_line
MaxTotalsStarted == 3   \* requests served in one run of SpecTotals
MaxCreateRequests == 1  \* requests in flight at once in SpecCreate
MaxFrameStarted == 3    \* requests served in one run of SpecFrame
MaxSettingsStarted == 4 \* requests served in one run of SpecSettings
MaxTenantStarted == 3   \* requests served in one run of SpecTenants

\* ------------------------------------------------------------- input sets
Hubs == {1}
Prefixes == {<<"F">>, <<"R">>}
\* pks a request may name: every row and one pk that does not exist
InvoiceIds == 1..(Len(invoices) + 1)
SeriesIds == 1..(Len(series) + 1)
\* the POST data of series_edit: prefix, number_digits, is_active, is_default
\* (an empty prefix fails the form's validation)
SeriesForms ==
    {[prefix |-> <<"F">>, number_digits |-> 6, is_active |-> TRUE, is_default |-> TRUE],
     [prefix |-> <<"R">>, number_digits |-> 4, is_active |-> TRUE, is_default |-> FALSE],
     [prefix |-> <<"F">>, number_digits |-> 6, is_active |-> FALSE, is_default |-> FALSE],
     [prefix |-> <<>>, number_digits |-> 6, is_active |-> TRUE, is_default |-> FALSE]}

\* ------------------------------------------------------- number formatting
DigitChars == <<"0", "1", "2", "3", "4", "5", "6", "7", "8", "9">>

RECURSIVE Str(_)
\* str(number) of a non-negative int: its decimal digits
Str(n) == IF n < 10 THEN <<DigitChars[n + 1]>>
          ELSE Str(n \div 10) \o <<DigitChars[(n % 10) + 1]>>

RECURSIVE ZFill(_, _)
\* str.zfill(width): pads on the left with "0" up to width, never truncates
ZFill(s, width) == IF Len(s) >= width THEN s ELSE ZFill(<<"0">> \o s, width)

\* f'{self.prefix}{str(number).zfill(self.number_digits)}'
FormatNumber(ser, number) == ser.prefix \o ZFill(Str(number), ser.number_digits)

\* ---------------------------------------------------------------- decimals
\* a Decimal: the value c / 10^e, kept without trailing zeros so that equal
\* values are equal records (the arithmetic of decimal.Decimal is exact at
\* these sizes; the number of trailing zeros it keeps is not modelled)
RECURSIVE Pow10(_)
Pow10(n) == IF n = 0 THEN 1 ELSE 10 * Pow10(n - 1)

RECURSIVE Norm(_)
Norm(d) == IF d.e > 0 /\ d.c % 10 = 0 THEN Norm([c |-> d.c \div 10, e |-> d.e - 1]) ELSE d

Dec(c, e) == Norm([c |-> c, e |-> e])
Zero == Dec(0, 0)
Hundred == Dec(100, 0)

DecScale(a, b) == IF a.e > b.e THEN a.e ELSE b.e
DecAdd(a, b) ==
    LET e == DecScale(a, b)
    IN Dec(a.c * Pow10(e - a.e) + b.c * Pow10(e - b.e), e)
DecSub(a, b) ==
    LET e == DecScale(a, b)
    IN Dec(a.c * Pow10(e - a.e) - b.c * Pow10(e - b.e), e)
DecMul(a, b) == Dec(a.c * b.c, a.e + b.e)
\* x / Decimal('100'): exact
DecDiv100(a) == Dec(a.c, a.e + 2)

RECURSIVE DecSum(_)
\* sum(...) over a sequence of Decimals, starting from 0
DecSum(ds) == IF ds = <<>> THEN Zero
              ELSE DecAdd(DecSum(SubSeq(ds, 1, Len(ds) - 1)), ds[Len(ds)])

\* the roundings a database makes when it stores a value in a
\* DecimalField: Django's format_number quantizes with the decimal
\* context's ROUND_HALF_EVEN; a numeric column that is handed the
\* unrounded value rounds half away from zero
Roundings == {"half_even", "half_up"}

\* a non-negative value as stored in a column with the given decimal_places
Quantize(d, places, mode) ==
    IF d.e <= places THEN d
    ELSE LET k == Pow10(d.e - places)
             lo == d.c \div k
             r == d.c % k
             up == IF 2 * r > k THEN TRUE
                   ELSE IF 2 * r < k THEN FALSE
                   ELSE IF mode = "half_even" THEN lo % 2 = 1
                   ELSE TRUE
         IN Dec(IF up THEN lo + 1 ELSE lo, places)

\* ------------------------------------------------------------------- rows
SeriesColumns == {"hub_id", "prefix", "next_number", "number_digits",
                  "is_active", "is_default", "is_deleted"}

\* a series as series_add / the ORM creates it: next_number defaults to 1
NewSeries(h, pfx, digits, dflt) ==
    [hub_id |-> h, prefix |-> pfx, next_number |-> 1, number_digits |-> digits,
     is_active |-> TRUE, is_default |-> dflt, is_deleted |-> FALSE]

\* an invoice as Invoice(...) builds it from a POST without optional data:
\* status draft, number blank, issue_date defaulting to now, type invoice,
\* a blank customer snapshot and no rectified document (0 is NULL)
NewInvoice(h, s) ==
    [hub_id |-> h, series |-> s, number |-> <<>>, status |-> "draft",
     issue_date |-> today, is_deleted |-> FALSE,
     tax_rate |-> Dec(21, 0), subtotal |-> Zero, tax_amount |-> Zero, total |-> Zero,
     invoice_type |-> "invoice", rectified_invoice |-> 0,
     customer_name |-> "", customer_tax_id |-> "", customer_address |-> "",
     customer_email |-> "", customer_phone |-> ""]

NoSeries == [hub_id |-> 0, prefix |-> <<>>, next_number |-> 0, number_digits |-> 0,
             is_active |-> FALSE, is_default |-> FALSE, is_deleted |-> FALSE]
NoInvoice == [hub_id |-> 0, series |-> 0, number |-> <<>>, status |-> "none",
              issue_date |-> 0, is_deleted |-> FALSE,
              tax_rate |-> Zero, subtotal |-> Zero, tax_amount |-> Zero, total |-> Zero,
              invoice_type |-> "invoice", rectified_invoice |-> 0,
              customer_name |-> "", customer_tax_id |-> "", customer_address |-> "",
              customer_email |-> "", customer_phone |-> ""]

\* a settings row as get_or_create(hub_id=h) creates it: the fields' defaults
NewSettings(h) ==
    [hub_id |-> h, company_name |-> "", company_tax_id |-> "",
     company_address |-> "", company_phone |-> "", company_email |-> "",
     default_series_prefix |-> <<"F">>,
     auto_generate_invoice |-> FALSE, require_customer |-> TRUE,
     invoice_footer |-> ""]

NoSettings == [NewSettings(0) EXCEPT !.default_series_prefix = <<>>]

SettingsColumns == {"hub_id", "company_name", "company_tax_id", "company_address",
                    "company_phone", "company_email", "default_series_prefix",
                    "auto_generate_invoice", "require_customer", "invoice_footer"}

\* a request in flight: the handler's position and the instances it holds
Req(kind, pc, inv_id, inv, ser_id, ser, fields) ==
    [kind |-> kind, pc |-> pc, inv_id |-> inv_id, inv |-> inv,
     ser_id |-> ser_id, ser |-> ser, fields |-> fields,
     number |-> 0,      \* get_next_number's local variable
     num |-> <<>>,      \* the string get_next_number returned
     post |-> <<>>,     \* the lines of the POST data, line_<i>_... at i + 1
     seen |-> <<>>,     \* the line totals calculate_totals read
     line_idx |-> 0,    \* invoice_create's loop index
     rectified_id |-> 0,    \* invoice_create's posted rectified_invoice_id
     hub |-> 0,         \* hub = _hub(request): the hub the request is made for
     set_id |-> 0,      \* the pk of the row get_settings returned
     value |-> "",      \* settings_input's posted value
     settings_obj |-> NoSettings]   \* the instance get_settings returned

InFlight == BagToSet(reqs)
Start(q) == reqs (+) SetToBag({q})
Finish(q) == reqs (-) SetToBag({q})
Move(q, q2) == (reqs (-) SetToBag({q})) (+) SetToBag({q2})
CanStart == BagCardinality(reqs) < MaxRequests /\ started < MaxStarted
CreatesInFlight ==
    BagCardinality([q \in {x \in InFlight : x.kind = "create" /\ x.pc \in {"ref", "loaded"}}
                       |-> reqs[q]])

\* ------------------------------------------------- InvoiceSeries.save
\* save() first clears is_default on the other series of the hub when the
\* instance in memory is default (one UPDATE through the default manager,
\* which hides soft-deleted rows), then writes the instance (a second
\* statement).
ClearOtherDefaults_Nothing(tbl, sid, obj) == tbl   \* (mutant) nothing cleared

\* (mutant) the UPDATE without hub_id=self.hub_id
ClearOtherDefaults_AnyHub(tbl, sid, obj) ==
    [i \in DOMAIN tbl |->
        IF i # sid /\ tbl[i].is_default /\ ~tbl[i].is_deleted
        THEN [tbl[i] EXCEPT !.is_default = FALSE]
        ELSE tbl[i]]

ClearOtherDefaults(tbl, sid, obj) ==
    [i \in DOMAIN tbl |->
        IF /\ i # sid
           /\ tbl[i].hub_id = obj.hub_id
           /\ tbl[i].is_default
           /\ ~tbl[i].is_deleted
        THEN [tbl[i] EXCEPT !.is_default = FALSE]
        ELSE tbl[i]]

\* super().save(update_fields=fields): UPDATE of the named columns by pk
WriteSeries(tbl, sid, obj, fields) ==
    [tbl EXCEPT ![sid] = [c \in SeriesColumns |->
                            IF c \in fields THEN obj[c] ELSE tbl[sid][c]]]

\* unique_together (hub_id, prefix), enforced by the database on every row
PrefixTaken(tbl, sid, obj) ==
    \E i \in DOMAIN tbl :
        i # sid /\ tbl[i].hub_id = obj.hub_id /\ tbl[i].prefix = obj.prefix

SeriesSaveClear(q) ==
    /\ q.pc = "ser_save"
    /\ q.ser.is_default
    /\ series' = ClearOtherDefaults(series, q.ser_id, q.ser)
    /\ reqs' = Move(q, [q EXCEPT !.pc = "ser_write"])
    /\ UNCHANGED <<invoices, today, lines, aside, returned, started>>

\* (mutant) the counter is read after the increment
GetNextNumber_ReadAfterIncrement(q, obj) ==
    [q EXCEPT !.pc = "ser_save",
              !.number = obj.next_number + 1,
              !.ser = [obj EXCEPT !.next_number = @ + 1],
              !.fields = {"next_number"}]

\* get_next_number up to its save: number = self.next_number,
\* self.next_number += 1, save(update_fields=['next_number', ...])
GetNextNumber(q, obj) ==
    [q EXCEPT !.pc = "ser_save",
              !.number = obj.next_number,
              !.ser = [obj EXCEPT !.next_number = @ + 1],
              !.fields = {"next_number"}]

\* the request after its series row is written: get_next_number returns the
\* formatted number (to issue(), or to the caller that called it directly),
\* every other handler is done
AfterSeriesSave(q) ==
    IF q.kind = "issue"
    THEN Move(q, [q EXCEPT !.pc = "inv_save",
                           !.num = FormatNumber(q.ser, q.number)])
    ELSE IF q.kind = "alloc"
    THEN Move(q, [q EXCEPT !.pc = "call"])
    ELSE Finish(q)

\* the statement that writes the row
SeriesSaveWrite(q) ==
    /\ q.pc = (IF q.ser.is_default THEN "ser_write" ELSE "ser_save")
    /\ IF "prefix" \in q.fields /\ PrefixTaken(series, q.ser_id, q.ser)
       THEN /\ reqs' = Finish(q)            \* IntegrityError
            /\ UNCHANGED <<series, returned>>
       ELSE /\ series' = IF q.ser_id = 0
                         THEN Append(series, q.ser)     \* INSERT of a new row
                         ELSE WriteSeries(series, q.ser_id, q.ser, q.fields)
            /\ reqs' = AfterSeriesSave(q)
            /\ returned' = IF q.kind = "alloc"
                           THEN Append(returned, FormatNumber(q.ser, q.number))
                           ELSE returned
    /\ UNCHANGED <<invoices, today, lines, aside, started>>

\* one more get_next_number call on an instance the caller keeps (the model
\* API, as the model tests call it)
SeriesGetNextNumber(q) ==
    /\ q.kind = "alloc"
    /\ q.pc = "call"
    /\ Len(returned) < MaxCalls
    /\ reqs' = Move(q, GetNextNumber(q, q.ser))
    /\ UNCHANGED <<series, invoices, today, lines, aside, returned, started>>

\* ------------------------------------------------------ invoice_issue
\* the view's query: pk, hub, not deleted, status draft
IssueQuery(h, d) ==
    /\ d \in DOMAIN invoices
    /\ invoices[d].hub_id = h
    /\ ~invoices[d].is_deleted
    /\ invoices[d].status = "draft"

InvoiceIssueLoad(h, d) ==
    /\ IF IssueQuery(h, d)
       THEN /\ CanStart
            /\ started' = started + 1
            /\ reqs' = Start([Req("issue", "loaded", d, invoices[d], 0, NoSeries, {})
                              EXCEPT !.hub = h])
       ELSE UNCHANGED <<reqs, started>>     \* 400, not found or not a draft
    /\ UNCHANGED <<series, invoices, today, lines, aside, returned>>

\* Invoice.issue() called on an instance loaded without the status filter
\* (the model API, as the model tests call it)
ModelIssueLoad(d) ==
    /\ d \in DOMAIN invoices
    /\ ~invoices[d].is_deleted
    /\ invoices[d].status # "draft"
    /\ CanStart
    /\ started' = started + 1
    /\ reqs' = Start(Req("issue", "loaded", d, invoices[d], 0, NoSeries, {}))
    /\ UNCHANGED <<series, invoices, today, lines, aside, returned>>

\* (mutant) issue() without its status test
IssueGetNextNumber_NoStatusTest(q) ==
    /\ q.kind = "issue"
    /\ q.pc = "loaded"
    /\ reqs' = Move(q, GetNextNumber([q EXCEPT !.ser_id = q.inv.series],
                                     series[q.inv.series]))
    /\ UNCHANGED <<series, invoices, today, lines, aside, returned, started>>

\* Invoice.issue(): the status test on the instance, then self.series (the
\* row is fetched by pk on first access) and get_next_number up to its save
IssueGetNextNumber(q) ==
    /\ q.kind = "issue"
    /\ q.pc = "loaded"
    /\ IF q.inv.status # "draft"
       THEN reqs' = Finish(q)               \* return False
       ELSE reqs' = Move(q, GetNextNumber([q EXCEPT !.ser_id = q.inv.series],
                                          series[q.inv.series]))
    /\ UNCHANGED <<series, invoices, today, lines, aside, returned, started>>

\* (mutant) 'number' missing from update_fields
IssueSaveInvoice_NumberNotSaved(q) ==
    /\ q.kind = "issue"
    /\ q.pc = "inv_save"
    /\ invoices' = [invoices EXCEPT ![q.inv_id] =
                       [@ EXCEPT !.status = "issued",
                                 !.issue_date = today]]
    /\ reqs' = Finish(q)
    /\ UNCHANGED <<series, today, lines, aside, returned, started>>

\* (mutant) issue_date left as it was at creation
IssueSaveInvoice_DateNotSet(q) ==
    /\ q.kind = "issue"
    /\ q.pc = "inv_save"
    /\ invoices' = [invoices EXCEPT ![q.inv_id] =
                       [@ EXCEPT !.number = q.num,
                                 !.status = "issued"]]
    /\ reqs' = Finish(q)
    /\ UNCHANGED <<series, today, lines, aside, returned, started>>

\* (mutant) save() without update_fields: every column of the instance
IssueSaveInvoice_FullSave(q) ==
    /\ q.kind = "issue"
    /\ q.pc = "inv_save"
    /\ invoices' = [invoices EXCEPT ![q.inv_id] =
                       [q.inv EXCEPT !.number = q.num,
                                     !.status = "issued",
                                     !.issue_date = today]]
    /\ reqs' = Finish(q)                    \* return True
    /\ UNCHANGED <<series, today, lines, aside, returned, started>>

\* self.number, self.status, self.issue_date and their save(update_fields)
IssueSaveInvoice(q) ==
    /\ q.kind = "issue"
    /\ q.pc = "inv_save"
    /\ invoices' = [invoices EXCEPT ![q.inv_id] =
                       [@ EXCEPT !.number = q.num,
                                 !.status = "issued",
                                 !.issue_date = today]]
    /\ reqs' = Finish(q)                    \* return True
    /\ UNCHANGED <<series, today, lines, aside, returned, started>>

\* ----------------------------------------------------- invoice_cancel
\* the view's query: pk, hub, not deleted (any status)
InvoiceCancelLoad(h, d) ==
    /\ IF /\ d \in DOMAIN invoices
          /\ invoices[d].hub_id = h
          /\ ~invoices[d].is_deleted
       THEN /\ CanStart
            /\ started' = started + 1
            /\ reqs' = Start([Req("cancel", "loaded", d, invoices[d], 0, NoSeries, {})
                              EXCEPT !.hub = h])
       ELSE UNCHANGED <<reqs, started>>     \* 404
    /\ UNCHANGED <<series, invoices, today, lines, aside, returned>>

\* (mutant) the status test accepts every status
InvoiceCancelSave_NoStatusTest(q) ==
    /\ q.kind = "cancel"
    /\ q.pc = "loaded"
    /\ invoices' = [invoices EXCEPT ![q.inv_id].status = "cancelled"]
    /\ reqs' = Finish(q)
    /\ UNCHANGED <<series, today, lines, aside, returned, started>>

\* the status test on the loaded instance, then status = 'cancelled' and
\* save(update_fields=['status', ...])
InvoiceCancelSave(q) ==
    /\ q.kind = "cancel"
    /\ q.pc = "loaded"
    /\ IF q.inv.status \notin {"draft", "issued"}
       THEN UNCHANGED invoices              \* 400, cannot cancel this invoice
       ELSE invoices' = [invoices EXCEPT ![q.inv_id].status = "cancelled"]
    /\ reqs' = Finish(q)
    /\ UNCHANGED <<series, today, lines, aside, returned, started>>

\* ----------------------------------------------------- invoice_delete
InvoiceDeleteLoad(h, d) ==
    /\ IF /\ d \in DOMAIN invoices
          /\ invoices[d].hub_id = h
          /\ ~invoices[d].is_deleted
          /\ invoices[d].status = "draft"
       THEN /\ CanStart
            /\ started' = started + 1
            /\ reqs' = Start([Req("delete", "loaded", d, invoices[d], 0, NoSeries, {})
                              EXCEPT !.hub = h])
       ELSE UNCHANGED <<reqs, started>>     \* 404, or only drafts can be deleted
    /\ UNCHANGED <<series, invoices, today, lines, aside, returned>>

InvoiceDeleteSave(q) ==
    /\ q.kind = "delete"
    /\ q.pc = "loaded"
    /\ invoices' = [invoices EXCEPT ![q.inv_id].is_deleted = TRUE]
    /\ reqs' = Finish(q)
    /\ UNCHANGED <<series, today, lines, aside, returned, started>>

\* ------------------------------------------------- lines and totals
\* (mutant) the line is built without its order
NewLine_NoOrder(h, d, inp, order) ==
    [hub_id |-> h, invoice |-> d, quantity |-> inp.quantity,
     unit_price |-> inp.unit_price, discount_percent |-> inp.discount_percent,
     total |-> Zero, order |-> 0, is_deleted |-> FALSE]

\* a line as InvoiceLine(...) builds it from its data: total defaults to 0
NewLine(h, d, inp, order) ==
    [hub_id |-> h, invoice |-> d, quantity |-> inp.quantity,
     unit_price |-> inp.unit_price, discount_percent |-> inp.discount_percent,
     total |-> Zero, order |-> order, is_deleted |-> FALSE]

\* InvoiceLine.calculate_total: subtotal = quantity * unit_price,
\* discount = subtotal * (discount_percent / 100), total = subtotal - discount
LineCalculateTotal(line) ==
    LET subtotal == DecMul(line.quantity, line.unit_price)
        discount == DecMul(subtotal, DecDiv100(line.discount_percent))
    IN [line EXCEPT !.total = DecSub(subtotal, discount)]

\* the row the database keeps of a line: quantity has 3 decimal places,
\* the other columns 2
StoredLine(line) ==
    [line EXCEPT !.quantity = Quantize(@, 3, rounding),
                 !.unit_price = Quantize(@, 2, rounding),
                 !.discount_percent = Quantize(@, 2, rounding),
                 !.total = Quantize(@, 2, rounding)]

\* (mutant) the row is written with the total the instance holds
LineSave_NoRecompute(line) == StoredLine(line)

\* InvoiceLine.save: calculate_total(), then the row is written
LineSave(line) == StoredLine(LineCalculateTotal(line))

\* self.lines.all(): the stored totals of the lines of document d
LineTotals(d) ==
    LET own == SelectSeq(lines, LAMBDA l : l.invoice = d /\ ~l.is_deleted)
    IN [i \in 1..Len(own) |-> own[i].total]

\* (mutant) the sum is added to the subtotal the instance already holds
CalculateTotals_Accumulate(inv, totals) ==
    LET subtotal == DecAdd(inv.subtotal, DecSum(totals))
        tax_amount == DecMul(subtotal, DecDiv100(inv.tax_rate))
    IN [inv EXCEPT !.subtotal = subtotal,
                   !.tax_amount = tax_amount,
                   !.total = DecAdd(subtotal, tax_amount)]

\* Invoice.calculate_totals on the line totals it read: subtotal = sum,
\* tax_amount = subtotal * (tax_rate / 100), total = subtotal + tax_amount
CalculateTotals(inv, totals) ==
    LET subtotal == DecSum(totals)
        tax_amount == DecMul(subtotal, DecDiv100(inv.tax_rate))
    IN [inv EXCEPT !.subtotal = subtotal,
                   !.tax_amount = tax_amount,
                   !.total = DecAdd(subtotal, tax_amount)]

\* save(update_fields=['subtotal', 'tax_amount', 'total', ...]) of instance inv
WriteTotals(tbl, d, inv) ==
    [tbl EXCEPT ![d].subtotal = Quantize(inv.subtotal, 2, rounding),
                ![d].tax_amount = Quantize(inv.tax_amount, 2, rounding),
                ![d].total = Quantize(inv.total, 2, rounding)]

\* ----------------------------------------------------- invoice_create
\* the optional data of a POST: the type, the customer snapshot and the id
\* of the rectified document (0: not posted)
PostData(type, rectified_id, name, tax_id) ==
    [invoice_type |-> type, rectified_invoice_id |-> rectified_id,
     customer_name |-> name, customer_tax_id |-> tax_id, customer_address |-> "",
     customer_email |-> "", customer_phone |-> ""]
PlainData == PostData("invoice", 0, "", "")

\* a posted line one of whose numbers Decimal() cannot parse
BadLine(field) == [malformed |-> field]
ParseFails(inp) == "malformed" \in DOMAIN inp

\* (mutant) the series query without is_active=True
CreateSeriesQuery_AnyActive(h, s) ==
    /\ s \in DOMAIN series
    /\ series[s].hub_id = h
    /\ ~series[s].is_deleted

\* the series query
CreateSeriesQuery(h, s) ==
    /\ s \in DOMAIN series
    /\ series[s].hub_id = h
    /\ ~series[s].is_deleted
    /\ series[s].is_active

\* the series query and Invoice(...); rate is the posted tax_rate, post the
\* posted lines and data the optional fields.  The customer and sale
\* lookups set foreign keys to rows of other applications and are left out.
InvoiceCreateLoad(h, s, rate, post, data) ==
    /\ IF CreateSeriesQuery(h, s)
       THEN /\ CanStart
            /\ Len(invoices) + CreatesInFlight < MaxInvoices
            /\ started' = started + 1
            /\ reqs' = Start([Req("create",
                                  IF /\ data.rectified_invoice_id # 0
                                     /\ data.invoice_type = "rectifying"
                                  THEN "ref" ELSE "loaded",
                                  0,
                                  [NewInvoice(h, s) EXCEPT
                                      !.tax_rate = rate,
                                      !.invoice_type = data.invoice_type,
                                      !.customer_name = data.customer_name,
                                      !.customer_tax_id = data.customer_tax_id,
                                      !.customer_address = data.customer_address,
                                      !.customer_email = data.customer_email,
                                      !.customer_phone = data.customer_phone],
                                  s, NoSeries, {})
                              EXCEPT !.post = post,
                                     !.rectified_id = data.rectified_invoice_id,
                                     !.hub = h])
       ELSE UNCHANGED <<reqs, started>>     \* Invalid series
    /\ UNCHANGED <<series, invoices, today, lines, aside, returned>>

\* the query for the rectified document: pk, hub, not deleted; the
\* reference is set when a row is found and left NULL otherwise
InvoiceCreateRef(q) ==
    /\ q.kind = "create"
    /\ q.pc = "ref"
    /\ reqs' = Move(q, [q EXCEPT
             !.pc = "loaded",
             !.inv.rectified_invoice =
                 IF /\ q.rectified_id \in DOMAIN invoices
                    /\ invoices[q.rectified_id].hub_id = q.inv.hub_id
                    /\ ~invoices[q.rectified_id].is_deleted
                 THEN q.rectified_id ELSE 0])
    /\ UNCHANGED <<series, invoices, today, lines, aside, returned, started>>

\* (mutant) the header is saved with a number taken from the series
InvoiceCreateSave_Allocating(q) ==
    /\ q.kind = "create"
    /\ q.pc = "loaded"
    /\ invoices' = Append(invoices, [q.inv EXCEPT !.number =
                        FormatNumber(series[q.ser_id], series[q.ser_id].next_number)])
    /\ series' = [series EXCEPT ![q.ser_id].next_number = @ + 1]
    /\ reqs' = Move(q, [q EXCEPT !.pc = "lines", !.inv_id = Len(invoices) + 1])
    /\ UNCHANGED <<today, lines, aside, returned, started>>

\* invoice.save(): the INSERT of the header
InvoiceCreateSave(q) ==
    /\ q.kind = "create"
    /\ q.pc = "loaded"
    /\ invoices' = Append(invoices, q.inv)
    /\ reqs' = Move(q, [q EXCEPT !.pc = "lines", !.inv_id = Len(invoices) + 1])
    /\ UNCHANGED <<series, today, lines, aside, returned, started>>

\* one turn of the loop over the posted lines: when line_<line_idx> is in
\* the POST data, Decimal() of its numbers, which raises on a malformed one
\* and ends the request, and InvoiceLine.objects.create of the line; when
\* it is missing the loop ends and calculate_totals() reads the document's
\* lines
InvoiceCreateLines(q) ==
    /\ q.kind = "create"
    /\ q.pc = "lines"
    /\ LET i == q.line_idx + 1
       IN IF i \in DOMAIN q.post /\ ParseFails(q.post[i])
          THEN /\ lines' = lines               \* decimal.InvalidOperation, 500
               /\ reqs' = Finish(q)
          ELSE IF i \in DOMAIN q.post
          THEN /\ lines' = Append(lines, LineSave(NewLine(q.inv.hub_id, q.inv_id,
                                                          q.post[i], q.line_idx)))
               /\ reqs' = Move(q, [q EXCEPT !.line_idx = q.line_idx + 1])
          ELSE /\ lines' = lines
               /\ reqs' = Move(q, [q EXCEPT
                        !.pc = "totals",
                        !.seen = LineTotals(q.inv_id),
                        !.inv = CalculateTotals(q.inv, LineTotals(q.inv_id))])
    /\ UNCHANGED <<series, invoices, today, aside, returned, started>>

\* invoice.save(update_fields=['subtotal', 'tax_amount', 'total', ...])
InvoiceCreateTotals(q) ==
    /\ q.kind = "create"
    /\ q.pc = "totals"
    /\ invoices' = WriteTotals(invoices, q.inv_id, q.inv)
    /\ reqs' = Finish(q)
    /\ UNCHANGED <<series, today, lines, aside, returned, started>>

\* ------------------------------------------------------------- settings
\* the rows of a hub in invoicing_settings, soft-deleted ones included
\* (all_objects)
SettingsOf(h) == {i \in DOMAIN settings : settings[i].hub_id = h}

\* the field names settings_toggle and settings_input accept
ToggleFields == {"auto_generate_invoice", "require_customer"}
InputFields == {"company_name", "company_tax_id", "company_address", "company_phone",
                "company_email", "default_series_prefix", "invoice_footer"}
AllowedFields(kind) == IF kind = "settings_toggle" THEN ToggleFields ELSE InputFields

\* a posted string as the column keeps it: a prefix is kept by character
Chars(v) ==
    CASE v = "" -> <<>>
      [] v = "R" -> <<"R">>
      [] v = "ACME" -> <<"A", "C", "M", "E">>
ColumnValue(f, v) == IF f = "default_series_prefix" THEN Chars(v) ELSE v

\* get_settings, first statement of get_or_create: SELECT by hub_id.  kind
\* is the view that calls it, fields the posted field name (none when the
\* view takes no field or the POST data has none) and value the posted value.
GetSettingsGet(h, kind, fields, value) ==
    /\ CanStart
    /\ started' = started + 1
    /\ reqs' = Start(
          IF SettingsOf(h) # {}
          THEN LET i == CHOOSE i \in SettingsOf(h) : TRUE
               IN [Req(kind, "got", 0, NoInvoice, 0, NoSeries, fields)
                      EXCEPT !.hub = h, !.value = value,
                             !.set_id = i, !.settings_obj = settings[i]]
          ELSE [Req(kind, "create", 0, NoInvoice, 0, NoSeries, fields)
                   EXCEPT !.hub = h, !.value = value])
    /\ UNCHANGED <<series, invoices, today, lines, rounding, settings, hook_calls,
                   returned>>

\* (mutant) the table has no unique constraint on hub_id
GetSettingsCreate_NoUnique(q) ==
    /\ q.pc = "create"
    /\ settings' = Append(settings, NewSettings(q.hub))
    /\ reqs' = Move(q, [q EXCEPT !.pc = "got",
                                 !.set_id = Len(settings) + 1,
                                 !.settings_obj = NewSettings(q.hub)])
    /\ UNCHANGED <<series, invoices, today, lines, rounding, hook_calls,
                   returned, started>>

\* get_settings, second statement of get_or_create: the INSERT; when the
\* unique constraint on hub_id refuses it (IntegrityError) the row that is
\* there is fetched and returned
GetSettingsCreate(q) ==
    /\ q.pc = "create"
    /\ IF SettingsOf(q.hub) # {}
       THEN LET i == CHOOSE i \in SettingsOf(q.hub) : TRUE
            IN /\ settings' = settings
               /\ reqs' = Move(q, [q EXCEPT !.pc = "got",
                                            !.set_id = i,
                                            !.settings_obj = settings[i]])
       ELSE /\ settings' = Append(settings, NewSettings(q.hub))
            /\ reqs' = Move(q, [q EXCEPT !.pc = "got",
                                         !.set_id = Len(settings) + 1,
                                         !.settings_obj = NewSettings(q.hub)])
    /\ UNCHANGED <<series, invoices, today, lines, rounding, hook_calls,
                   returned, started>>

\* the settings view: the form is rendered from the instance
SettingsView(q) ==
    /\ q.kind = "settings"
    /\ q.pc = "got"
    /\ reqs' = Finish(q)
    /\ UNCHANGED <<series, invoices, today, lines, rounding, settings, hook_calls,
                   returned, started>>

\* settings_toggle and settings_input: a field name that is not in the
\* allowed set, or none, is answered 400 'Invalid field'
SettingsInvalidField(q) ==
    /\ q.kind \in {"settings_toggle", "settings_input"}
    /\ q.pc = "got"
    /\ ~ \E f \in AllowedFields(q.kind) : q.fields = {f}
    /\ reqs' = Finish(q)
    /\ UNCHANGED <<series, invoices, today, lines, rounding, settings, hook_calls,
                   returned, started>>

\* (mutant) the field is set to True
SettingsToggleSave_SetTrue(q) ==
    /\ q.kind = "settings_toggle"
    /\ q.pc = "got"
    /\ \E f \in AllowedFields(q.kind) : q.fields = {f}
    /\ settings' = [settings EXCEPT ![q.set_id] =
                       [c \in SettingsColumns |->
                           IF c \in q.fields THEN TRUE ELSE @[c]]]
    /\ reqs' = Finish(q)
    /\ UNCHANGED <<series, invoices, today, lines, rounding, hook_calls,
                   returned, started>>

\* settings_toggle: setattr(settings_obj, field, not current) and
\* save(update_fields=[field, ...])
SettingsToggleSave(q) ==
    /\ q.kind = "settings_toggle"
    /\ q.pc = "got"
    /\ \E f \in AllowedFields(q.kind) : q.fields = {f}
    /\ settings' = [settings EXCEPT ![q.set_id] =
                       [c \in SettingsColumns |->
                           IF c \in q.fields THEN ~q.settings_obj[c] ELSE @[c]]]
    /\ reqs' = Finish(q)
    /\ UNCHANGED <<series, invoices, today, lines, rounding, hook_calls,
                   returned, started>>

\* settings_input: setattr(settings_obj, field, value) and
\* save(update_fields=[field, ...]); the value is not validated
SettingsInputSave(q) ==
    /\ q.kind = "settings_input"
    /\ q.pc = "got"
    /\ \E f \in AllowedFields(q.kind) : q.fields = {f}
    /\ settings' = [settings EXCEPT ![q.set_id] =
                       [c \in SettingsColumns |->
                           IF c \in q.fields THEN ColumnValue(c, q.value) ELSE @[c]]]
    /\ reqs' = Finish(q)
    /\ UNCHANGED <<series, invoices, today, lines, rounding, hook_calls,
                   returned, started>>

\* settings_reset: every field set to its default, then save()
SettingsResetSave(q) ==
    /\ q.kind = "settings_reset"
    /\ q.pc = "got"
    /\ settings' = [settings EXCEPT ![q.set_id] = NewSettings(q.settings_obj.hub_id)]
    /\ reqs' = Finish(q)
    /\ UNCHANGED <<series, invoices, today, lines, rounding, hook_calls,
                   returned, started>>

\* ---------------------------------------------------------------- hooks
\* InvoicingConfig.do_before_invoice_create and do_after_invoice_create:
\* hooks.do_action runs the callbacks registered for the hook.  No handler
\* of views.py calls either of them.
DoBeforeInvoiceCreate(calls) == Append(calls, "invoicing.before_invoice_create")
DoAfterInvoiceCreate(calls) == Append(calls, "invoicing.after_invoice_create")

\* ------------------------------------------- lines through the model API
\* InvoiceLine.objects.create(invoice=d, ...): the line is saved, nothing
\* else is called
LineCreate(d, inp) ==
    /\ d \in DOMAIN invoices
    /\ Len(lines) < MaxLines
    /\ lines' = Append(lines, LineSave(NewLine(invoices[d].hub_id, d, inp, 0)))
    /\ UNCHANGED <<series, invoices, reqs, today, aside, returned, started>>

\* save() of the instance of line l after its data were set to inp, its
\* total field holding old
LineUpdate(l, inp, old) ==
    /\ l \in DOMAIN lines
    /\ lines' = [lines EXCEPT ![l] =
                    LineSave([@ EXCEPT !.quantity = inp.quantity,
                                       !.unit_price = inp.unit_price,
                                       !.discount_percent = inp.discount_percent,
                                       !.total = old])]
    /\ UNCHANGED <<series, invoices, reqs, today, aside, returned, started>>

\* ------------------------------------------ totals through the model API
\* an instance of document d is loaded
ModelTotalsLoad(d) ==
    /\ d \in DOMAIN invoices
    /\ CanStart
    /\ started' = started + 1
    /\ reqs' = Start(Req("totals", "loaded", d, invoices[d], 0, NoSeries, {}))
    /\ UNCHANGED <<series, invoices, today, lines, aside, returned>>

\* inv.calculate_totals(), a first and a second time
ModelCalculateTotals(q) ==
    /\ q.kind = "totals"
    /\ q.pc \in {"loaded", "once"}
    /\ reqs' = Move(q, [q EXCEPT
             !.pc = IF q.pc = "loaded" THEN "once" ELSE "twice",
             !.seen = LineTotals(q.inv_id),
             !.inv = CalculateTotals(q.inv, LineTotals(q.inv_id))])
    /\ UNCHANGED <<series, invoices, today, lines, aside, returned, started>>

\* inv.save(update_fields=['subtotal', 'tax_amount', 'total', ...])
ModelTotalsSave(q) ==
    /\ q.kind = "totals"
    /\ q.pc \in {"once", "twice"}
    /\ invoices' = WriteTotals(invoices, q.inv_id, q.inv)
    /\ reqs' = Finish(q)
    /\ UNCHANGED <<series, today, lines, aside, returned, started>>

\* -------------------------------------------------------- series_edit
\* InvoiceSeriesForm.is_valid(): prefix is required, at most 10 characters
FormValid(form) == Len(form.prefix) >= 1 /\ Len(form.prefix) <= 10

\* the form's fields applied to the loaded instance; next_number and the
\* other columns keep the values read by the view's query
ApplyForm(obj, form) ==
    [obj EXCEPT !.prefix = form.prefix,
                !.number_digits = form.number_digits,
                !.is_active = form.is_active,
                !.is_default = form.is_default]

\* --------------------------------------------------------- series_add
AddsInFlight ==
    BagCardinality([q \in {x \in InFlight : x.kind = "series_add"} |-> reqs[q]])

\* form.is_valid(), form.save(commit=False), series.hub_id = hub; the
\* series.save() that follows inserts the row (ser_id 0: no row yet)
SeriesAddLoad(h, form) ==
    /\ IF FormValid(form)
       THEN /\ CanStart
            /\ Len(series) + AddsInFlight < MaxSeries
            /\ started' = started + 1
            /\ reqs' = Start([Req("series_add", "ser_save", 0, NoInvoice, 0,
                                  ApplyForm(NewSeries(h, <<>>, 6, FALSE), form),
                                  SeriesColumns)
                              EXCEPT !.hub = h])
       ELSE UNCHANGED <<reqs, started>>     \* form errors
    /\ UNCHANGED <<series, invoices, today, lines, aside, returned>>

\* the series views' query: pk, hub, not deleted
SeriesQuery(h, s) ==
    /\ s \in DOMAIN series
    /\ series[s].hub_id = h
    /\ ~series[s].is_deleted

\* the view's query and form.is_valid(); form.save() then saves every column
SeriesEditLoad(h, s, form) ==
    /\ IF SeriesQuery(h, s) /\ FormValid(form)
       THEN /\ CanStart
            /\ started' = started + 1
            /\ reqs' = Start([Req("series_edit", "ser_save", 0, NoInvoice, s,
                                  ApplyForm(series[s], form), SeriesColumns)
                              EXCEPT !.hub = h])
       ELSE UNCHANGED <<reqs, started>>     \* Series not found, or form errors
    /\ UNCHANGED <<series, invoices, today, lines, aside, returned>>

\* ------------------------------------------------------ series_toggle
SeriesToggleLoad(h, s) ==
    /\ IF SeriesQuery(h, s)
       THEN /\ CanStart
            /\ started' = started + 1
            /\ reqs' = Start([Req("series_toggle", "ser_save", 0, NoInvoice, s,
                                  [series[s] EXCEPT !.is_active = ~@],
                                  {"is_active"})
                              EXCEPT !.hub = h])
       ELSE UNCHANGED <<reqs, started>>     \* 404
    /\ UNCHANGED <<series, invoices, today, lines, aside, returned>>

\* ------------------------------------------------------ series_delete
SeriesDeleteLoad(h, s) ==
    /\ IF SeriesQuery(h, s)
       THEN /\ CanStart
            /\ started' = started + 1
            /\ reqs' = Start([Req("series_delete", "check", 0, NoInvoice, s,
                                  series[s], {})
                              EXCEPT !.hub = h])
       ELSE UNCHANGED <<reqs, started>>     \* 404
    /\ UNCHANGED <<series, invoices, today, lines, aside, returned>>

\* (mutant) cancelled documents do not count
HasInvoices_NotCancelled(s) ==
    \E d \in DOMAIN invoices :
        /\ invoices[d].series = s
        /\ ~invoices[d].is_deleted
        /\ invoices[d].status # "cancelled"

\* Invoice.objects.filter(series=series, is_deleted=False).exists()
HasInvoices(s) ==
    \E d \in DOMAIN invoices : invoices[d].series = s /\ ~invoices[d].is_deleted

SeriesDeleteCheck(q) ==
    /\ q.kind = "series_delete"
    /\ q.pc = "check"
    /\ IF HasInvoices(q.ser_id)
       THEN reqs' = Finish(q)               \* 400, series has invoices
       ELSE reqs' = Move(q, [q EXCEPT
                !.pc = "ser_save",
                !.ser = [q.ser EXCEPT !.is_deleted = TRUE],
                !.fields = {"is_deleted"}])
    /\ UNCHANGED <<series, invoices, today, lines, aside, returned, started>>

\* ---------------------------------------------------------------- clock
Tick ==
    /\ today < MaxDay
    /\ today' = today + 1
    /\ UNCHANGED <<series, invoices, reqs, returned, started, lines, aside>>

\* ------------------------------------------------------ specifications
NoRequests ==
    /\ invoices = <<>>
    /\ reqs = EmptyBag
    /\ today = 1
    /\ returned = <<>>
    /\ started = 0
    /\ lines = <<>>
    /\ rounding = "half_even"
    /\ settings = <<>>
    /\ hook_calls = <<>>

\* the document handlers
DocumentStep ==
    \/ \E h \in Hubs, d \in InvoiceIds : InvoiceIssueLoad(h, d)
    \/ \E d \in InvoiceIds : ModelIssueLoad(d)
    \/ \E q \in InFlight : IssueGetNextNumber(q)
    \/ \E q \in InFlight : SeriesSaveClear(q)
    \/ \E q \in InFlight : SeriesSaveWrite(q)
    \/ \E q \in InFlight : IssueSaveInvoice(q)
    \/ \E h \in Hubs, d \in InvoiceIds : InvoiceCancelLoad(h, d)
    \/ \E q \in InFlight : InvoiceCancelSave(q)
    \/ \E h \in Hubs, d \in InvoiceIds : InvoiceDeleteLoad(h, d)
    \/ \E q \in InFlight : InvoiceDeleteSave(q)
    \/ \E h \in Hubs, s \in SeriesIds : InvoiceCreateLoad(h, s, Dec(21, 0), <<>>, PlainData)
    \/ \E q \in InFlight : InvoiceCreateSave(q)
    \/ \E q \in InFlight : InvoiceCreateLines(q)
    \/ \E q \in InFlight : InvoiceCreateTotals(q)

\* the series handlers
SeriesStep ==
    \/ \E h \in Hubs, s \in SeriesIds, form \in SeriesForms : SeriesEditLoad(h, s, form)
    \/ \E h \in Hubs, s \in SeriesIds : SeriesToggleLoad(h, s)
    \/ \E h \in Hubs, s \in SeriesIds : SeriesDeleteLoad(h, s)
    \/ \E q \in InFlight : SeriesDeleteCheck(q)

\* Spec: concurrent document requests on the two series of the test
\* fixtures, F with 6 digits (the default series) and R with 4
Init ==
    /\ series = <<NewSeries(1, <<"F">>, 6, TRUE), NewSeries(1, <<"R">>, 4, FALSE)>>
    /\ NoRequests

Next == DocumentStep

Spec == Init /\ [][Next]_vars

\* SpecSeries: document and series requests running concurrently on one series
InitSeries ==
    /\ series = <<NewSeries(1, <<"F">>, 6, TRUE)>>
    /\ NoRequests

NextSeries == DocumentStep \/ SeriesStep

SpecSeries == InitSeries /\ [][NextSeries]_vars

\* SpecClock: concurrent issue requests on two drafts created on day 1,
\* while the date advances
InitClock ==
    /\ today = 1
    /\ series = <<NewSeries(1, <<"F">>, 6, TRUE)>>
    /\ invoices = <<NewInvoice(1, 1), NewInvoice(1, 1)>>
    /\ reqs = EmptyBag
    /\ returned = <<>>
    /\ started = 0
    /\ lines = <<>>
    /\ rounding = "half_even"
    /\ settings = <<>>
    /\ hook_calls = <<>>

NextClock ==
    \/ \E h \in Hubs, d \in InvoiceIds : InvoiceIssueLoad(h, d)
    \/ \E q \in InFlight : IssueGetNextNumber(q)
    \/ \E q \in InFlight : SeriesSaveClear(q)
    \/ \E q \in InFlight : SeriesSaveWrite(q)
    \/ \E q \in InFlight : IssueSaveInvoice(q)
    \/ Tick

SpecClock == InitClock /\ [][NextClock]_vars

\* SpecAlloc: one caller calling get_next_number over and over on a fresh
\* series of any prefix and width
AllocPrefixes == {<<"F">>, <<"R">>, <<"F", "A">>}
AllocDigits == {0, 1, 2, 4, 6}

InitAlloc ==
    /\ \E pfx \in AllocPrefixes, digits \in AllocDigits, dflt \in BOOLEAN :
          /\ series = <<NewSeries(1, pfx, digits, dflt)>>
          /\ reqs = SetToBag({Req("alloc", "call", 0, NoInvoice, 1,
                                  NewSeries(1, pfx, digits, dflt), {})})
    /\ invoices = <<>>
    /\ today = 1
    /\ returned = <<>>
    /\ started = 0
    /\ lines = <<>>
    /\ rounding = "half_even"
    /\ settings = <<>>
    /\ hook_calls = <<>>

NextAlloc ==
    \/ \E q \in InFlight : SeriesGetNextNumber(q)
    \/ \E q \in InFlight : SeriesSaveClear(q)
    \/ \E q \in InFlight : SeriesSaveWrite(q)

SpecAlloc == InitAlloc /\ [][NextAlloc]_vars

\* SpecStatus: cancel, issue and delete requests on two documents of every
\* status a row can hold; paid is written by payment recording, which is
\* not part of this module, so a paid row is there from the start
InitStatuses == {"draft", "issued", "paid"}

\* a row of the given status, created the day before: a draft has no
\* number, an issued or paid document holds the number made from counter
\* value n
StatusDoc(st, n) ==
    [NewInvoice(1, 1) EXCEPT
        !.number = IF st = "draft" THEN <<>>
                   ELSE FormatNumber(NewSeries(1, <<"F">>, 6, TRUE), n),
        !.status = st,
        !.issue_date = 0]

InitStatus ==
    /\ today = 1
    /\ \E st1, st2 \in InitStatuses :
          LET n1 == IF st1 = "draft" THEN 0 ELSE 1
              n2 == IF st2 = "draft" THEN n1 ELSE n1 + 1
          IN /\ invoices = <<StatusDoc(st1, n1), StatusDoc(st2, n2)>>
             /\ series = <<[NewSeries(1, <<"F">>, 6, TRUE) EXCEPT !.next_number = n2 + 1]>>
    /\ reqs = EmptyBag
    /\ returned = <<>>
    /\ started = 0
    /\ lines = <<>>
    /\ rounding = "half_even"
    /\ settings = <<>>
    /\ hook_calls = <<>>

StatusLoad ==
    \/ \E h \in Hubs, d \in InvoiceIds : InvoiceCancelLoad(h, d)
    \/ \E h \in Hubs, d \in InvoiceIds : InvoiceIssueLoad(h, d)
    \/ \E d \in InvoiceIds : ModelIssueLoad(d)
    \/ \E h \in Hubs, d \in InvoiceIds : InvoiceDeleteLoad(h, d)

StatusStep ==
    \/ \E q \in InFlight : InvoiceCancelSave(q)
    \/ \E q \in InFlight : IssueGetNextNumber(q)
    \/ \E q \in InFlight : SeriesSaveClear(q)
    \/ \E q \in InFlight : SeriesSaveWrite(q)
    \/ \E q \in InFlight : IssueSaveInvoice(q)
    \/ \E q \in InFlight : InvoiceDeleteSave(q)

NextStatus == (started < MaxStatusStarted /\ StatusLoad) \/ StatusStep

SpecStatus == InitStatus /\ [][NextStatus]_vars

\* SpecSetDefault: series_add, series_edit and series_delete requests of two
\* hubs running concurrently, starting from the default series F of hub 1
DefaultHubs == {1, 2}
DefaultForms ==
    {[prefix |-> <<"F">>, number_digits |-> 6, is_active |-> TRUE, is_default |-> TRUE],
     [prefix |-> <<"R">>, number_digits |-> 4, is_active |-> TRUE, is_default |-> TRUE],
     [prefix |-> <<"R">>, number_digits |-> 4, is_active |-> TRUE, is_default |-> FALSE],
     [prefix |-> <<"F">>, number_digits |-> 6, is_active |-> TRUE, is_default |-> FALSE]}

SetDefaultLoad ==
    \/ \E h \in DefaultHubs, form \in DefaultForms : SeriesAddLoad(h, form)
    \/ \E h \in DefaultHubs, s \in SeriesIds, form \in DefaultForms : SeriesEditLoad(h, s, form)
    \/ \E h \in DefaultHubs, s \in SeriesIds : SeriesDeleteLoad(h, s)

SetDefaultStep ==
    \/ \E q \in InFlight : SeriesSaveClear(q)
    \/ \E q \in InFlight : SeriesSaveWrite(q)
    \/ \E q \in InFlight : SeriesDeleteCheck(q)

NextSetDefault == SetDefaultLoad \/ SetDefaultStep

SpecSetDefault == InitSeries /\ [][NextSetDefault]_vars

\* SpecSetDefaultSeq: the same requests served one after the other
NextSetDefaultSeq == (reqs = EmptyBag /\ SetDefaultLoad) \/ SetDefaultStep

SpecSetDefaultSeq == InitSeries /\ [][NextSetDefaultSeq]_vars

\* SpecLines: lines created and saved through the model API on one draft
\* document, under either rounding of the database
LineData(q, p, d) == [quantity |-> q, unit_price |-> p, discount_percent |-> d]
LineInputs ==
    {LineData(Dec(2, 0), Dec(50, 0), Zero),         \* 2 x 50.00
     LineData(Dec(1, 0), Dec(100, 0), Zero),        \* 1 x 100.00
     LineData(Dec(2, 0), Dec(100, 0), Dec(10, 0)),  \* 2 x 100.00 at 10%
     LineData(Dec(4, 0), Dec(25, 0), Dec(5, 0)),    \* 4 x 25.00 at 5%
     LineData(Dec(1005, 3), Dec(11, 2), Zero),      \* 1.005 x 0.11
     LineData(Dec(1, 0), Dec(5, 2), Zero),          \* 1 x 0.05
     LineData(Dec(1, 0), Dec(5, 2), Dec(50, 0))}    \* 1 x 0.05 at 50%
OldTotals == {Zero, Dec(999, 2)}

InitLines ==
    /\ today = 1
    /\ rounding \in Roundings
    /\ settings = <<>>
    /\ hook_calls = <<>>
    /\ series = <<NewSeries(1, <<"F">>, 6, TRUE)>>
    /\ invoices = <<StatusDoc("draft", 0)>>
    /\ lines = <<>>
    /\ reqs = EmptyBag
    /\ returned = <<>>
    /\ started = 0

NextLines ==
    \/ \E d \in InvoiceIds, inp \in LineInputs : LineCreate(d, inp)
    \/ \E l \in DOMAIN lines, inp \in LineInputs, old \in OldTotals : LineUpdate(l, inp, old)

SpecLines == InitLines /\ [][NextLines]_vars

\* SpecTotals: invoice_create requests posting lines, and lines created
\* through the model API
TaxRates == {Dec(21, 0), Dec(10, 0)}
Posts ==
    {<<>>,
     <<LineData(Dec(2, 0), Dec(50, 0), Zero), LineData(Dec(1, 0), Dec(100, 0), Zero)>>,
     <<LineData(Dec(1005, 3), Dec(11, 2), Zero)>>,
     <<LineData(Dec(1, 0), Dec(5, 2), Zero)>>}
DirectLines ==
    {LineData(Dec(2, 0), Dec(50, 0), Zero),
     LineData(Dec(1, 0), Dec(5, 2), Zero)}

InitTotals ==
    /\ today = 1
    /\ rounding \in Roundings
    /\ settings = <<>>
    /\ hook_calls = <<>>
    /\ series = <<NewSeries(1, <<"F">>, 6, TRUE)>>
    /\ invoices = <<>>
    /\ lines = <<>>
    /\ reqs = EmptyBag
    /\ returned = <<>>
    /\ started = 0

TotalsLoad ==
    \E h \in Hubs, s \in SeriesIds, rate \in TaxRates, post \in Posts :
        InvoiceCreateLoad(h, s, rate, post, PlainData)

TotalsStep ==
    \/ \E q \in InFlight : InvoiceCreateSave(q)
    \/ \E q \in InFlight : InvoiceCreateLines(q)
    \/ \E q \in InFlight : InvoiceCreateTotals(q)
    \/ \E d \in InvoiceIds, inp \in DirectLines : LineCreate(d, inp)

NextTotals == (started < MaxTotalsStarted /\ TotalsLoad) \/ TotalsStep

SpecTotals == InitTotals /\ [][NextTotals]_vars

\* SpecCalc: calculate_totals called once and twice on instances of one
\* document, loaded before and after its totals were saved, while lines are
\* added to it
InitCalc ==
    /\ today = 1
    /\ rounding \in Roundings
    /\ settings = <<>>
    /\ hook_calls = <<>>
    /\ series = <<NewSeries(1, <<"F">>, 6, TRUE)>>
    /\ \E rate \in TaxRates :
          invoices = <<[StatusDoc("draft", 0) EXCEPT !.tax_rate = rate]>>
    /\ lines = <<>>
    /\ reqs = EmptyBag
    /\ returned = <<>>
    /\ started = 0

NextCalc ==
    \/ started < MaxTotalsStarted /\ \E d \in InvoiceIds : ModelTotalsLoad(d)
    \/ \E q \in InFlight : ModelCalculateTotals(q)
    \/ \E q \in InFlight : ModelTotalsSave(q)
    \/ \E d \in InvoiceIds, inp \in DirectLines : LineCreate(d, inp)

SpecCalc == InitCalc /\ [][NextCalc]_vars

\* SpecSeriesDelete: series_delete requests on series F, referenced by two
\* documents of any status, and on series R, referenced by none, while the
\* documents are cancelled and deleted
InitSeriesDelete ==
    /\ today = 1
    /\ \E st1, st2 \in InitStatuses :
          LET n1 == IF st1 = "draft" THEN 0 ELSE 1
              n2 == IF st2 = "draft" THEN n1 ELSE n1 + 1
          IN /\ invoices = <<StatusDoc(st1, n1), StatusDoc(st2, n2)>>
             /\ series = <<[NewSeries(1, <<"F">>, 6, TRUE) EXCEPT !.next_number = n2 + 1],
                           NewSeries(1, <<"R">>, 4, FALSE)>>
    /\ reqs = EmptyBag
    /\ returned = <<>>
    /\ started = 0
    /\ lines = <<>>
    /\ rounding = "half_even"
    /\ settings = <<>>
    /\ hook_calls = <<>>

SeriesDeleteLoads ==
    \/ \E h \in Hubs, s \in SeriesIds : SeriesDeleteLoad(h, s)
    \/ \E h \in Hubs, d \in InvoiceIds : InvoiceCancelLoad(h, d)
    \/ \E h \in Hubs, d \in InvoiceIds : InvoiceDeleteLoad(h, d)

SeriesDeleteSteps ==
    \/ \E q \in InFlight : SeriesDeleteCheck(q)
    \/ \E q \in InFlight : SeriesSaveClear(q)
    \/ \E q \in InFlight : SeriesSaveWrite(q)
    \/ \E q \in InFlight : InvoiceCancelSave(q)
    \/ \E q \in InFlight : InvoiceDeleteSave(q)

NextSeriesDelete ==
    (started < MaxStatusStarted /\ SeriesDeleteLoads) \/ SeriesDeleteSteps

SpecSeriesDelete == InitSeriesDelete /\ [][NextSeriesDelete]_vars

\* SpecCreate: invoice_create requests of two hubs naming every kind of
\* series: F of hub 1 (active), R of hub 1 (inactive), F of hub 2, a deleted
\* series of hub 1 and a pk that does not exist; some post a line whose
\* quantity does not parse
CreateHubs == {1, 2}
CreatePosts ==
    {<<>>,
     <<LineData(Dec(2, 0), Dec(50, 0), Zero)>>,
     <<LineData(Dec(2, 0), Dec(50, 0), Zero), BadLine("quantity")>>}
CreateData == {PlainData, PostData("invoice", 0, "ACME", "B12345678")}

InitCreate ==
    /\ series = <<NewSeries(1, <<"F">>, 6, TRUE),
                  [NewSeries(1, <<"R">>, 4, FALSE) EXCEPT !.is_active = FALSE],
                  NewSeries(2, <<"F">>, 6, TRUE),
                  [NewSeries(1, <<"A">>, 6, FALSE) EXCEPT !.is_deleted = TRUE]>>
    /\ NoRequests

NextCreate ==
    \/ /\ BagCardinality(reqs) < MaxCreateRequests
       /\ \E h \in CreateHubs, s \in SeriesIds, post \in CreatePosts, data \in CreateData :
             InvoiceCreateLoad(h, s, Dec(21, 0), post, data)
    \/ \E q \in InFlight : InvoiceCreateSave(q)
    \/ \E q \in InFlight : InvoiceCreateLines(q)
    \/ \E q \in InFlight : InvoiceCreateTotals(q)

SpecCreate == InitCreate /\ [][NextCreate]_vars

\* SpecOrder: invoice_create requests of one hub whose POST data holds the
\* lines 0 and 1, the line 0 alone, the lines 0 and 2 (line_1 missing), the
\* line 1 alone (line_0 missing), or no line
OrderLines ==
    <<LineData(Dec(2, 0), Dec(50, 0), Zero),
      LineData(Dec(1, 0), Dec(100, 0), Zero),
      LineData(Dec(4, 0), Dec(25, 0), Dec(5, 0))>>
OrderPosts ==
    {<<>>,
     <<OrderLines[1]>>,
     <<OrderLines[1], OrderLines[2]>>,
     (1 :> OrderLines[1]) @@ (3 :> OrderLines[3]),
     (2 :> OrderLines[2])}

InitOrder ==
    /\ series = <<NewSeries(1, <<"F">>, 6, TRUE)>>
    /\ NoRequests

NextOrder ==
    \/ /\ BagCardinality(reqs) < MaxCreateRequests
       /\ \E post \in OrderPosts, data \in CreateData :
             InvoiceCreateLoad(1, 1, Dec(21, 0), post, data)
    \/ \E q \in InFlight : InvoiceCreateSave(q)
    \/ \E q \in InFlight : InvoiceCreateLines(q)
    \/ \E q \in InFlight : InvoiceCreateTotals(q)

SpecOrder == InitOrder /\ [][NextOrder]_vars

\* SpecRectify: invoice_create requests of two hubs, plain and rectifying
\* with any posted rectified_invoice_id, while drafts are deleted
RectifyData ==
    {PostData(type, id, "", "") : type \in {"invoice", "rectifying"}, id \in 0..2}

InitRectify ==
    /\ series = <<NewSeries(1, <<"F">>, 6, TRUE), NewSeries(2, <<"F">>, 6, TRUE)>>
    /\ NoRequests

NextRectify ==
    \/ \E h \in CreateHubs, s \in SeriesIds, data \in RectifyData :
          InvoiceCreateLoad(h, s, Dec(21, 0), <<>>, data)
    \/ \E q \in InFlight : InvoiceCreateRef(q)
    \/ \E q \in InFlight : InvoiceCreateSave(q)
    \/ \E q \in InFlight : InvoiceCreateLines(q)
    \/ \E q \in InFlight : InvoiceCreateTotals(q)
    \/ \E h \in CreateHubs, d \in InvoiceIds : InvoiceDeleteLoad(h, d)
    \/ \E q \in InFlight : InvoiceDeleteSave(q)

SpecRectify == InitRectify /\ [][NextRectify]_vars

\* SpecFrame: issue and cancel requests, and issue() on instances that are
\* not drafts, on one document with a customer snapshot, while lines are
\* added to it and its totals are recomputed and saved
InitFrame ==
    /\ today = 1
    /\ rounding = "half_even"
    /\ settings = <<>>
    /\ hook_calls = <<>>
    /\ series = <<NewSeries(1, <<"F">>, 6, TRUE)>>
    /\ invoices = <<[StatusDoc("draft", 0) EXCEPT
                        !.tax_rate = Dec(10, 0),
                        !.customer_name = "ACME",
                        !.customer_tax_id = "B12345678",
                        !.customer_address = "1 Main St",
                        !.customer_email = "billing@acme.test",
                        !.customer_phone = "555-0100"]>>
    /\ lines = <<>>
    /\ reqs = EmptyBag
    /\ returned = <<>>
    /\ started = 0

FrameLoad ==
    \/ \E h \in Hubs, d \in InvoiceIds : InvoiceIssueLoad(h, d)
    \/ \E d \in InvoiceIds : ModelIssueLoad(d)
    \/ \E h \in Hubs, d \in InvoiceIds : InvoiceCancelLoad(h, d)
    \/ \E d \in InvoiceIds : ModelTotalsLoad(d)

FrameStep ==
    \/ \E q \in InFlight : IssueGetNextNumber(q)
    \/ \E q \in InFlight : SeriesSaveClear(q)
    \/ \E q \in InFlight : SeriesSaveWrite(q)
    \/ \E q \in InFlight : IssueSaveInvoice(q)
    \/ \E q \in InFlight : InvoiceCancelSave(q)
    \/ \E q \in InFlight : ModelCalculateTotals(q)
    \/ \E q \in InFlight : ModelTotalsSave(q)
    \/ \E d \in InvoiceIds, inp \in DirectLines : LineCreate(d, inp)

NextFrame == (started < MaxFrameStarted /\ FrameLoad) \/ FrameStep

SpecFrame == InitFrame /\ [][NextFrame]_vars

\* SpecSettings: the settings views of two hubs, each starting with
\* get_settings, running concurrently on an empty invoicing_settings table
InitSettings ==
    /\ series = <<NewSeries(1, <<"F">>, 6, TRUE)>>
    /\ NoRequests

SettingsLoad ==
    \/ \E h \in CreateHubs : GetSettingsGet(h, "settings", {}, "")
    \/ \E h \in CreateHubs, f \in ToggleFields : GetSettingsGet(h, "settings_toggle", {f}, "")
    \/ \E h \in CreateHubs : GetSettingsGet(h, "settings_reset", {}, "")

SettingsStep ==
    \/ \E q \in InFlight : GetSettingsCreate(q)
    \/ \E q \in InFlight : SettingsView(q)
    \/ \E q \in InFlight : SettingsToggleSave(q)
    \/ \E q \in InFlight : SettingsResetSave(q)

NextSettings == (started < MaxSettingsStarted /\ SettingsLoad) \/ SettingsStep

SpecSettings == InitSettings /\ [][NextSettings]_vars

\* SpecFields: settings_toggle and settings_input requests of two hubs,
\* served one after the other, with field names of either allowed set, of
\* neither, and none
MaxFieldsStarted == 4  \* requests served in one run of SpecFields
PostedFields == {{"auto_generate_invoice"}, {"require_customer"}, {"company_name"},
                 {"default_series_prefix"}, {"hub_id"}, {}}
PostedValues == {"", "R", "ACME"}

InitFields ==
    /\ series = <<NewSeries(1, <<"F">>, 6, TRUE)>>
    /\ NoRequests

FieldsLoad ==
    \/ \E h \in CreateHubs, fs \in PostedFields :
          GetSettingsGet(h, "settings_toggle", fs, "")
    \/ \E h \in CreateHubs, fs \in PostedFields, v \in PostedValues :
          GetSettingsGet(h, "settings_input", fs, v)

FieldsStep ==
    \/ \E q \in InFlight : GetSettingsCreate(q)
    \/ \E q \in InFlight : SettingsInvalidField(q)
    \/ \E q \in InFlight : SettingsToggleSave(q)
    \/ \E q \in InFlight : SettingsInputSave(q)

NextFields ==
    \/ (reqs = EmptyBag /\ started < MaxFieldsStarted /\ FieldsLoad)
    \/ FieldsStep

SpecFields == InitFields /\ [][NextFields]_vars

\* SpecRenumber: series created and edited (prefix and number_digits
\* included) and documents created, issued and cancelled, one request
\* after the other, starting from series F
RenumberForms ==
    {[prefix |-> <<"F">>, number_digits |-> 6, is_active |-> TRUE, is_default |-> TRUE],
     [prefix |-> <<"R">>, number_digits |-> 6, is_active |-> TRUE, is_default |-> FALSE],
     [prefix |-> <<"R">>, number_digits |-> 4, is_active |-> TRUE, is_default |-> FALSE]}

RenumberLoad ==
    \/ \E h \in Hubs, form \in RenumberForms : SeriesAddLoad(h, form)
    \/ \E h \in Hubs, s \in SeriesIds, form \in RenumberForms : SeriesEditLoad(h, s, form)
    \/ \E h \in Hubs, s \in SeriesIds : InvoiceCreateLoad(h, s, Dec(21, 0), <<>>, PlainData)
    \/ \E h \in Hubs, d \in InvoiceIds : InvoiceIssueLoad(h, d)
    \/ \E h \in Hubs, d \in InvoiceIds : InvoiceCancelLoad(h, d)

RenumberStep ==
    \/ \E q \in InFlight : SeriesSaveClear(q)
    \/ \E q \in InFlight : SeriesSaveWrite(q)
    \/ \E q \in InFlight : InvoiceCreateSave(q)
    \/ \E q \in InFlight : InvoiceCreateLines(q)
    \/ \E q \in InFlight : InvoiceCreateTotals(q)
    \/ \E q \in InFlight : IssueGetNextNumber(q)
    \/ \E q \in InFlight : IssueSaveInvoice(q)
    \/ \E q \in InFlight : InvoiceCancelSave(q)

NextRenumber == (reqs = EmptyBag /\ RenumberLoad) \/ RenumberStep

SpecRenumber == InitSeries /\ [][NextRenumber]_vars

\* SpecToggle: series_toggle and issue requests running concurrently with
\* series_edit requests that make a series the default, on series F (the
\* default) and R and one draft of F
ToggleForms ==
    {[prefix |-> <<"F">>, number_digits |-> 6, is_active |-> TRUE, is_default |-> TRUE],
     [prefix |-> <<"R">>, number_digits |-> 4, is_active |-> TRUE, is_default |-> TRUE]}

InitToggle ==
    /\ today = 1
    /\ rounding = "half_even"
    /\ settings = <<>>
    /\ hook_calls = <<>>
    /\ series = <<NewSeries(1, <<"F">>, 6, TRUE), NewSeries(1, <<"R">>, 4, FALSE)>>
    /\ invoices = <<StatusDoc("draft", 0)>>
    /\ lines = <<>>
    /\ reqs = EmptyBag
    /\ returned = <<>>
    /\ started = 0

NextToggle ==
    \/ \E h \in Hubs, s \in SeriesIds : SeriesToggleLoad(h, s)
    \/ \E h \in Hubs, s \in SeriesIds, form \in ToggleForms : SeriesEditLoad(h, s, form)
    \/ \E h \in Hubs, d \in InvoiceIds : InvoiceIssueLoad(h, d)
    \/ \E q \in InFlight : IssueGetNextNumber(q)
    \/ \E q \in InFlight : SeriesSaveClear(q)
    \/ \E q \in InFlight : SeriesSaveWrite(q)
    \/ \E q \in InFlight : IssueSaveInvoice(q)

SpecToggle == InitToggle /\ [][NextToggle]_vars

\* SpecTenants: two hubs, each with a default series F, a draft and (hub 2)
\* a line and a settings row; the document, series and settings requests of
\* either hub name every pk, those of the other hub included
TenantForms ==
    {[prefix |-> <<"R">>, number_digits |-> 4, is_active |-> TRUE, is_default |-> TRUE]}

InitTenants ==
    /\ today = 1
    /\ rounding = "half_even"
    /\ hook_calls = <<>>
    /\ series = <<NewSeries(1, <<"F">>, 6, TRUE), NewSeries(2, <<"F">>, 6, TRUE)>>
    /\ invoices = <<StatusDoc("draft", 0),
                    [StatusDoc("draft", 0) EXCEPT !.hub_id = 2, !.series = 2]>>
    /\ lines = <<LineSave(NewLine(2, 2, LineData(Dec(2, 0), Dec(50, 0), Zero), 0))>>
    /\ settings = <<NewSettings(2)>>
    /\ reqs = EmptyBag
    /\ returned = <<>>
    /\ started = 0

TenantsLoad ==
    \/ \E h \in CreateHubs, d \in InvoiceIds : InvoiceIssueLoad(h, d)
    \/ \E h \in CreateHubs, d \in InvoiceIds : InvoiceCancelLoad(h, d)
    \/ \E h \in CreateHubs, d \in InvoiceIds : InvoiceDeleteLoad(h, d)
    \/ \E h \in CreateHubs, s \in SeriesIds, form \in TenantForms : SeriesEditLoad(h, s, form)
    \/ \E h \in CreateHubs, s \in SeriesIds : SeriesToggleLoad(h, s)
    \/ \E h \in CreateHubs, s \in SeriesIds : SeriesDeleteLoad(h, s)
    \/ \E h \in CreateHubs, f \in ToggleFields : GetSettingsGet(h, "settings_toggle", {f}, "")
    \/ \E h \in CreateHubs : GetSettingsGet(h, "settings_reset", {}, "")

TenantsStep ==
    \/ \E q \in InFlight : IssueGetNextNumber(q)
    \/ \E q \in InFlight : SeriesSaveClear(q)
    \/ \E q \in InFlight : SeriesSaveWrite(q)
    \/ \E q \in InFlight : IssueSaveInvoice(q)
    \/ \E q \in InFlight : InvoiceCancelSave(q)
    \/ \E q \in InFlight : InvoiceDeleteSave(q)
    \/ \E q \in InFlight : SeriesDeleteCheck(q)
    \/ \E q \in InFlight : GetSettingsCreate(q)
    \/ \E q \in InFlight : SettingsToggleSave(q)
    \/ \E q \in InFlight : SettingsResetSave(q)

NextTenants == (started < MaxTenantStarted /\ TenantsLoad) \/ TenantsStep

SpecTenants == InitTenants /\ [][NextTenants]_vars

\* ================================================================ claims
\* reading a number back: the value of a string of decimal digits
IsDigits(s) == \A i \in 1..Len(s) : \E v \in 1..10 : DigitChars[v] = s[i]
DigitOf(c) == (CHOOSE v \in 1..10 : DigitChars[v] = c) - 1

RECURSIVE DigitsValue(_)
DigitsValue(s) == IF s = <<>> THEN 0
                  ELSE 10 * DigitsValue(SubSeq(s, 1, Len(s) - 1)) + DigitOf(s[Len(s)])

RECURSIVE NDigits(_)
NDigits(n) == IF n < 10 THEN 1 ELSE 1 + NDigits(n \div 10)

\* str is pfx followed by n written in decimal, left-padded with zeros to
\* digits characters
IsFormatted(str, pfx, digits, n) ==
    LET width == IF NDigits(n) > digits THEN NDigits(n) ELSE digits
        tail == SubSeq(str, Len(pfx) + 1, Len(str))
    IN /\ Len(str) = Len(pfx) + width
       /\ SubSeq(str, 1, Len(pfx)) = pfx
       /\ IsDigits(tail)
       /\ DigitsValue(tail) = n

\* the counter value a document's number carries
CounterOf(d) ==
    LET pfx == series[invoices[d].series].prefix
    IN DigitsValue(SubSeq(invoices[d].number, Len(pfx) + 1, Len(invoices[d].number)))

Numbered(s) ==
    {d \in DOMAIN invoices : invoices[d].series = s /\ invoices[d].number # <<>>}

\* request q took the step
TookStep(q) == CopiesIn(q, reqs') < CopiesIn(q, reqs)

\* C1: two issue requests on two different draft documents of one series
\* never receive the same number: in every state two different documents of
\* a series that both have a number have different numbers.
C1_DistinctNumbers ==
    \A s \in DOMAIN series : \A a, b \in Numbered(s) :
        a # b => invoices[a].number # invoices[b].number

\* C2: numbering is gap-free per series: whenever no request is in flight,
\* the counter values carried by the numbers of a series' documents are
\* exactly 1..next_number-1, each held by exactly one document.
C2_GapFree ==
    reqs = EmptyBag =>
        \A s \in DOMAIN series :
            /\ \A d \in Numbered(s) : CounterOf(d) \in 1..(series[s].next_number - 1)
            /\ \A n \in 1..(series[s].next_number - 1) :
                  Cardinality({d \in Numbered(s) : CounterOf(d) = n}) = 1

\* C3: for a fresh series with prefix P and number_digits D the k-th
\* consecutive get_next_number call returns P followed by k left-padded with
\* zeros to D characters, and each call increases the persisted next_number
\* by exactly 1 (F/6 gives F000001, F000002, F000003; R/4 gives R0001).
C3_SequentialAllocation ==
    /\ \A k \in 1..Len(returned) :
          IsFormatted(returned[k], series[1].prefix, series[1].number_digits, k)
    /\ \A q \in InFlight : q.pc = "call" => series[1].next_number = Len(returned) + 1
    /\ (series[1].prefix = <<"F">> /\ series[1].number_digits = 6 /\ Len(returned) >= 3)
          => /\ returned[1] = <<"F", "0", "0", "0", "0", "0", "1">>
             /\ returned[2] = <<"F", "0", "0", "0", "0", "0", "2">>
             /\ returned[3] = <<"F", "0", "0", "0", "0", "0", "3">>
    /\ (series[1].prefix = <<"R">> /\ series[1].number_digits = 4 /\ Len(returned) >= 1)
          => returned[1] = <<"R", "0", "0", "0", "1">>

C3_Witness ==
    /\ series[1].prefix = <<"F">>
    /\ series[1].number_digits = 6
    /\ Len(returned) = 3
    /\ series[1].next_number = 4

\* C4: the persisted next_number of a series never decreases, and it changes
\* only in the step in which an issue request saves the counter it allocated.
C4_CounterMonotone ==
    [][\A s \in DOMAIN series :
          /\ series'[s].next_number >= series[s].next_number
          /\ series'[s].next_number # series[s].next_number =>
                \E q \in InFlight :
                    /\ q.kind = "issue"
                    /\ q.ser_id = s
                    /\ q.fields = {"next_number"}
                    /\ TookStep(q)]_vars

\* C5: once a document has a number, that number is the same in every later
\* state.
C5_NumberImmutable ==
    [][\A d \in DOMAIN invoices :
          invoices[d].number # <<>> => invoices'[d].number = invoices[d].number]_vars

\* C6: cancelling does not release the number: the cancel step leaves the
\* document's number and every next_number unchanged, and an issue request
\* that reads the counter after the cancellation is not given the number of
\* a cancelled document of that series.
C6_CancelKeepsNumber ==
    [][\A q \in InFlight :
          /\ (q.kind = "cancel" /\ TookStep(q)) =>
                /\ invoices'[q.inv_id].number = invoices[q.inv_id].number
                /\ \A s \in DOMAIN series :
                      series'[s].next_number = series[s].next_number
          /\ (q.kind = "issue" /\ q.pc = "loaded" /\ q.inv.status = "draft" /\ TookStep(q)) =>
                LET s == q.inv.series
                IN \A d \in Numbered(s) :
                      (d # q.inv_id /\ invoices[d].status = "cancelled") =>
                          invoices[d].number #
                              FormatNumber(series[s], series[s].next_number)]_vars

\* C7: a document with status draft has an empty number, and a document with
\* status issued has a non-empty number.
C7_StatusNumber ==
    \A d \in DOMAIN invoices :
        /\ invoices[d].status = "draft" => invoices[d].number = <<>>
        /\ invoices[d].status = "issued" => invoices[d].number # <<>>

C7_Witness ==
    \E a, b \in DOMAIN invoices :
        /\ invoices[a].status = "issued" /\ invoices[a].number # <<>>
        /\ invoices[a].issue_date = today
        /\ invoices[b].status = "draft" /\ invoices[b].number = <<>>

\* C8: issue() on a draft document takes the series' persisted next_number
\* and, when it returns true, the persisted document has status issued, a
\* non-empty number that is that counter value formatted with the series'
\* prefix and digits, and issue_date equal to today.
C8_IssueEffect ==
    [][\A q \in InFlight :
          /\ (q.kind = "issue" /\ q.pc = "loaded" /\ q.inv.status = "draft" /\ TookStep(q)) =>
                \E q2 \in BagToSet(reqs') :
                    /\ q2.inv_id = q.inv_id
                    /\ q2.pc = "ser_save"
                    /\ q2.number = series[q.inv.series].next_number
          /\ (q.kind = "issue" /\ q.pc = "inv_save" /\ TookStep(q)) =>
                LET doc == invoices'[q.inv_id]
                    ser == series[q.inv.series]
                IN /\ doc.status = "issued"
                   /\ doc.number # <<>>
                   /\ IsFormatted(doc.number, ser.prefix, ser.number_digits, q.number)
                   /\ doc.issue_date = today
                   /\ BagCardinality(reqs') = BagCardinality(reqs) - 1]_vars

C8_Witness ==
    \E d \in DOMAIN invoices :
        /\ invoices[d].status = "issued"
        /\ invoices[d].number = <<"F", "0", "0", "0", "0", "0", "1">>
        /\ invoices[d].issue_date = 2
        /\ today = 2
        /\ series[1].next_number = 2

\* C9: issue() on an instance whose status is not draft returns false and
\* changes nothing: no row of either table changes in that step and the
\* request is over.
C9_IssueNonDraft ==
    [][\A q \in InFlight :
          (q.kind = "issue" /\ q.pc = "loaded" /\ q.inv.status # "draft" /\ TookStep(q)) =>
              /\ series' = series
              /\ invoices' = invoices
              /\ BagCardinality(reqs') = BagCardinality(reqs) - 1]_vars

C9_Witness ==
    /\ \E q \in InFlight :
          q.kind = "issue" /\ q.pc = "loaded" /\ q.inv.status = "issued"
    /\ \E q \in InFlight :
          q.kind = "issue" /\ q.pc = "loaded" /\ q.inv.status = "cancelled"

\* C10: a document is issued at most once: of the issue requests on one
\* document at most one allocates a number, so a document never has more
\* than one allocation, counting the number it holds.
Allocating(d) ==
    LET S == {q \in InFlight : /\ q.kind = "issue"
                               /\ q.inv_id = d
                               /\ q.pc \in {"ser_save", "ser_write", "inv_save"}}
    IN BagCardinality([q \in S |-> reqs[q]])

C10_IssuedOnce ==
    \A d \in DOMAIN invoices :
        Allocating(d) + (IF invoices[d].number # <<>> THEN 1 ELSE 0) <= 1

\* C11: cancel on a document loaded with status draft or issued sets the
\* persisted status to cancelled and changes nothing else; cancel on a
\* document loaded with status cancelled or paid is refused and changes no
\* row of either table.
C11_CancelEffect ==
    [][\A q \in InFlight :
          (q.kind = "cancel" /\ q.pc = "loaded" /\ TookStep(q)) =>
              /\ series' = series
              /\ BagCardinality(reqs') = BagCardinality(reqs) - 1
              /\ IF q.inv.status \in {"draft", "issued"}
                 THEN invoices' = [invoices EXCEPT ![q.inv_id].status = "cancelled"]
                 ELSE invoices' = invoices]_vars

C11_Witness ==
    \E a, b \in DOMAIN invoices :
        /\ invoices[a].status = "cancelled"
        /\ invoices[a].number # <<>>
        /\ invoices[b].status = "paid"
        /\ \E q \in InFlight :
              q.kind = "cancel" /\ q.inv_id = a /\ q.inv.status = "cancelled"
        /\ \E q \in InFlight :
              q.kind = "cancel" /\ q.inv_id = b /\ q.inv.status = "paid"

\* C12: the only status changes of a document are draft->issued,
\* draft->cancelled, issued->cancelled and issued->paid: no step moves a
\* document out of cancelled or an issued document back to draft.
C12_StatusTransitions ==
    [][\A d \in DOMAIN invoices :
          invoices'[d].status # invoices[d].status =>
              <<invoices[d].status, invoices'[d].status>> \in
                  {<<"draft", "issued">>, <<"draft", "cancelled">>,
                   <<"issued", "cancelled">>, <<"issued", "paid">>}]_vars

\* the non-deleted default series of hub h
Defaults(tbl, h) ==
    {s \in DOMAIN tbl : tbl[s].hub_id = h /\ ~tbl[s].is_deleted /\ tbl[s].is_default}

\* C13: with series creations and edits served one after the other, every
\* step leaves at most one non-deleted default series per hub, and the step
\* that writes a series saved with is_default = true leaves that series as
\* the only default of its hub (the former default A is false, B is true).
C13_SingleDefault ==
    [][/\ \A h \in DefaultHubs : Cardinality(Defaults(series', h)) <= 1
       /\ \A q \in InFlight :
             (/\ q.kind \in {"series_add", "series_edit"}
              /\ q.pc = "ser_write"
              /\ TookStep(q)
              /\ ~PrefixTaken(series, q.ser_id, q.ser)) =>
                 LET sid == IF q.ser_id = 0 THEN Len(series') ELSE q.ser_id
                 IN Defaults(series', q.ser.hub_id) = {sid}]_vars

C13_Witness ==
    /\ reqs = EmptyBag
    /\ Len(series) >= 2
    /\ series[1].hub_id = 1 /\ ~series[1].is_deleted /\ ~series[1].is_default
    /\ series[2].hub_id = 1 /\ ~series[2].is_deleted /\ series[2].is_default

\* C14: with series saved as default concurrently, no state has two
\* non-deleted series of one hub with is_default = true.
C14_NoTwoDefaults ==
    \A h \in DefaultHubs :
        \A a, b \in DOMAIN series :
            (/\ a # b
             /\ series[a].hub_id = h /\ series[b].hub_id = h
             /\ ~series[a].is_deleted /\ ~series[b].is_deleted)
                => ~(series[a].is_default /\ series[b].is_default)

\* comparing decimals
DecLeq(a, b) == DecSub(b, a).c >= 0
HalfCent == Dec(5, 3)
\* t has at most 2 fractional digits and is within half a cent of x
IsRounded2(t, x) ==
    /\ t.e <= 2
    /\ DecLeq(DecSub(t, x), HalfCent)
    /\ DecLeq(DecSub(x, t), HalfCent)

\* C15: whenever no operation is in progress (after an invoice_create or a
\* direct InvoiceLine save has ended), the stored subtotal of every document
\* equals the sum of the stored totals of its non-deleted lines.
C15_SubtotalIsLineSum ==
    reqs = EmptyBag =>
        \A d \in DOMAIN invoices : invoices[d].subtotal = DecSum(LineTotals(d))

\* C16: after calculate_totals the instance's tax_amount is subtotal x
\* tax_rate / 100 rounded to 2 fractional digits and its total is subtotal +
\* tax_amount (line totals 100.00 and 100.00 at 21% give 200.00, 42.00 and
\* 242.00).
C16_TotalsRounded ==
    \A q \in InFlight :
        (q.kind \in {"create", "totals"} /\ q.pc \in {"totals", "once", "twice"}) =>
            /\ q.inv.subtotal = DecSum(q.seen)
            /\ IsRounded2(q.inv.tax_amount,
                          DecMul(q.inv.subtotal, DecDiv100(q.inv.tax_rate)))
            /\ q.inv.total = DecAdd(q.inv.subtotal, q.inv.tax_amount)
            /\ (q.seen = <<Dec(100, 0), Dec(100, 0)>> /\ q.inv.tax_rate = Dec(21, 0)) =>
                  /\ q.inv.subtotal = Dec(200, 0)
                  /\ q.inv.tax_amount = Dec(42, 0)
                  /\ q.inv.total = Dec(242, 0)

\* C17: every stored line, created or saved again with any total held
\* before, has total = quantity x unit_price x (1 - discount_percent/100)
\* rounded to 2 fractional digits (2 x 100.00 at 10% gives 180.00, 4 x 25.00
\* at 5% gives 95.00).
C17_LineTotal ==
    \A l \in DOMAIN lines :
        LET row == lines[l]
            x == DecMul(DecMul(row.quantity, row.unit_price),
                        DecDiv100(DecSub(Hundred, row.discount_percent)))
        IN /\ IsRounded2(row.total, x)
           /\ (row.quantity = Dec(2, 0) /\ row.unit_price = Dec(100, 0)
                  /\ row.discount_percent = Dec(10, 0)) => row.total = Dec(180, 0)
           /\ (row.quantity = Dec(4, 0) /\ row.unit_price = Dec(25, 0)
                  /\ row.discount_percent = Dec(5, 0)) => row.total = Dec(95, 0)

C17_Witness ==
    /\ rounding = "half_even"
    /\ settings = <<>>
    /\ hook_calls = <<>>
    /\ Len(lines) = 2
    /\ lines[1].quantity = Dec(2, 0) /\ lines[1].discount_percent = Dec(10, 0)
    /\ lines[1].total = Dec(180, 0)
    /\ lines[2].unit_price = Dec(5, 2) /\ lines[2].discount_percent = Dec(50, 0)
    /\ lines[2].total = Dec(2, 2)

Totals3(inv) == <<inv.subtotal, inv.tax_amount, inv.total>>

\* C18: calculate_totals is idempotent: a second call that reads the same
\* lines leaves subtotal, tax_amount and total as the first call set them,
\* and two instances of a document that read the same lines get the same
\* three values whatever totals they were loaded with.
C18_TotalsIdempotent ==
    /\ [](\A q1, q2 \in InFlight :
            (/\ q1.kind = "totals" /\ q2.kind = "totals"
             /\ q1.pc \in {"once", "twice"} /\ q2.pc \in {"once", "twice"}
             /\ q1.inv_id = q2.inv_id
             /\ q1.seen = q2.seen) => Totals3(q1.inv) = Totals3(q2.inv))
    /\ [][\A q \in InFlight : \A q2 \in BagToSet(reqs') :
             (/\ q.kind = "totals" /\ q.pc = "once"
              /\ q2.pc = "twice"
              /\ reqs' = Move(q, q2)
              /\ q2.seen = q.seen) => Totals3(q2.inv) = Totals3(q.inv)]_vars

C18_Witness ==
    \E q1, q2 \in InFlight :
        /\ q1.kind = "totals" /\ q1.pc = "twice"
        /\ q2.kind = "totals" /\ q2.pc = "once"
        /\ q1.seen = <<Dec(100, 0), Dec(100, 0)>>
        /\ q2.seen = q1.seen
        /\ q1.inv.tax_rate = Dec(21, 0)
        /\ Totals3(q1.inv) = <<Dec(200, 0), Dec(42, 0), Dec(242, 0)>>
        /\ invoices[1].subtotal = Dec(100, 0)

\* document d is not deleted and references series s
References(d, s) == invoices[d].series = s /\ ~invoices[d].is_deleted

\* C19: series_delete on a series that no document references marks the
\* series deleted and changes nothing else; on a series referenced by a
\* document of any status, cancelled included, it is refused and changes
\* no series and no document.
C19_SeriesDeleteGuard ==
    [][\A q \in InFlight :
          (q.kind = "series_delete" /\ TookStep(q)) =>
              /\ invoices' = invoices
              /\ q.pc = "check" =>
                    /\ series' = series
                    /\ IF \E d \in DOMAIN invoices : References(d, q.ser_id)
                       THEN BagCardinality(reqs') = BagCardinality(reqs) - 1
                       ELSE \E q2 \in BagToSet(reqs') :
                               /\ reqs' = Move(q, q2)
                               /\ q2.pc = "ser_save"
                               /\ q2.ser.is_deleted
              /\ (q.pc = (IF q.ser.is_default THEN "ser_write" ELSE "ser_save")) =>
                    /\ series'[q.ser_id].is_deleted
                    /\ \A s \in DOMAIN series :
                          [series'[s] EXCEPT !.is_deleted = FALSE] =
                          [series[s] EXCEPT !.is_deleted = FALSE]]_vars

C19_Witness ==
    /\ series[2].is_deleted
    /\ ~series[1].is_deleted
    /\ \A d \in DOMAIN invoices : invoices[d].status = "cancelled" /\ References(d, 1)
    /\ \E q \in InFlight : q.kind = "series_delete" /\ q.pc = "check" /\ q.ser_id = 1

\* C20: no two non-deleted series of one hub have the same prefix, and a
\* series_add or series_edit whose prefix is used by another series of the
\* hub changes no row in any of its steps (requests served one after the
\* other).
C20_UniquePrefix ==
    /\ [](\A a, b \in DOMAIN series :
            (/\ a # b
             /\ series[a].hub_id = series[b].hub_id
             /\ ~series[a].is_deleted /\ ~series[b].is_deleted)
                => series[a].prefix # series[b].prefix)
    /\ [][\A q \in InFlight :
             (/\ q.kind \in {"series_add", "series_edit"}
              /\ TookStep(q)
              /\ PrefixTaken(series, q.ser_id, q.ser)) => series' = series]_vars

\* the request that started in this step, if one did
Started(q2) == CopiesIn(q2, reqs') > CopiesIn(q2, reqs) /\ started' = started + 1

C22_CreateDoesNotAllocate ==
    [][\A q \in InFlight :
          (q.kind = "create" /\ TookStep(q)) =>
              /\ \A s \in DOMAIN series :
                    series'[s].next_number = series[s].next_number
              /\ q.pc = "loaded" =>
                    /\ Len(invoices') = Len(invoices) + 1
                    /\ invoices'[Len(invoices')].status = "draft"
                    /\ invoices'[Len(invoices')].number = <<>>
              /\ q.pc = "totals" =>
                    /\ BagCardinality(reqs') = BagCardinality(reqs) - 1
                    /\ invoices'[q.inv_id].status = "draft"
                    /\ invoices'[q.inv_id].number = <<>>]_vars

C22_Witness ==
    /\ reqs = EmptyBag
    /\ Len(invoices) = 2
    /\ \A d \in DOMAIN invoices :
          /\ invoices[d].status = "draft" /\ invoices[d].number = <<>>
          /\ invoices[d].subtotal = Dec(100, 0)
          /\ invoices[d].customer_name = "ACME"
    /\ \A s \in DOMAIN series : series[s].next_number = 1

\* C23: invoice_create is all-or-nothing: when a request ends because a
\* posted line has a malformed number, no header and no line of its
\* document is persisted.
C23_CreateAllOrNothing ==
    [][\A q \in InFlight :
          (/\ q.kind = "create" /\ q.pc = "lines"
           /\ q.line_idx + 1 \in DOMAIN q.post
           /\ ParseFails(q.post[q.line_idx + 1])
           /\ TookStep(q)) =>
              /\ q.inv_id \notin DOMAIN invoices'
              /\ \A l \in DOMAIN lines' : lines'[l].invoice # q.inv_id]_vars

\* every reference to a rectified document stays within the hub
RectifiedSameHub ==
    \A d \in DOMAIN invoices :
        invoices[d].rectified_invoice # 0 =>
            /\ invoices[d].rectified_invoice \in DOMAIN invoices
            /\ invoices[invoices[d].rectified_invoice].hub_id = invoices[d].hub_id

\* C24: a document whose rectified_invoice is set points to a document of
\* the same hub, in every state; and the INSERT of a header never stores a
\* rectified_invoice that names a document of another hub or a deleted one.
C24_RectifiedStored ==
    /\ []RectifiedSameHub
    /\ [][Len(invoices') > Len(invoices) =>
             LET ref == invoices'[Len(invoices')].rectified_invoice
             IN ref # 0 =>
                   /\ ref \in DOMAIN invoices
                   /\ invoices[ref].hub_id = invoices'[Len(invoices')].hub_id
                   /\ ~invoices[ref].is_deleted]_vars

HooksRun(calls) == {calls[i] : i \in DOMAIN calls}

\* C25: document creation runs the pre-create hook before it persists
\* anything and the post-create hook once the document is persisted: the
\* pre-create hook has run when the header is inserted, and the post-create
\* hook has run when a successful request ends.
C25_CreateHooks ==
    [][\A q \in InFlight :
          (q.kind = "create" /\ TookStep(q)) =>
              /\ q.pc = "loaded" =>
                    DoBeforeInvoiceCreate(<<>>)[1] \in HooksRun(hook_calls)
              /\ q.pc = "totals" =>
                    DoAfterInvoiceCreate(<<>>)[1] \in HooksRun(hook_calls')]_vars

\* a row without the three columns issue() and cancel write
Frame(row) == [row EXCEPT !.number = <<>>, !.status = "", !.issue_date = 0]

\* C26: issue and cancel write only the fields they change: every step of
\* an issue or cancel request, successful or refused, leaves the lines and
\* every column of every document other than number, status and issue_date
\* (the customer snapshot, tax_rate, subtotal, tax_amount and total among
\* them) as stored before the step, whatever the instance in memory holds.
C26_IssueCancelFrame ==
    [][\A q \in InFlight :
          (q.kind \in {"issue", "cancel"} /\ TookStep(q)) =>
              /\ lines' = lines
              /\ \A d \in DOMAIN invoices : Frame(invoices'[d]) = Frame(invoices[d])
              /\ q.kind = "cancel" =>
                    /\ invoices'[q.inv_id].number = invoices[q.inv_id].number
                    /\ invoices'[q.inv_id].issue_date = invoices[q.inv_id].issue_date]_vars

C26_Witness ==
    /\ invoices[1].status = "issued"
    /\ invoices[1].issue_date = today
    /\ invoices[1].subtotal = Dec(100, 0)
    /\ invoices[1].tax_amount = Dec(10, 0)
    /\ invoices[1].customer_name = "ACME"
    /\ Len(lines) = 1
    /\ \E q \in InFlight :
          /\ q.kind = "cancel" /\ q.pc = "loaded"
          /\ q.inv.status = "draft" /\ q.inv.subtotal = Zero

\* C27: get_settings is a get-or-create keyed by hub: a row is inserted only
\* for a hub that has none and holds the defaults (prefix F,
\* auto_generate_invoice false, require_customer true); every call returns
\* the row of its hub, whose pk and hub never change; and no state has two
\* rows of one hub.
C27_GetSettings ==
    /\ [](\A h \in CreateHubs : Cardinality(SettingsOf(h)) <= 1)
    /\ [](\A q \in InFlight :
            q.pc = "got" =>
                /\ q.set_id \in DOMAIN settings
                /\ SettingsOf(q.hub) = {q.set_id}
                /\ q.settings_obj.hub_id = q.hub)
    /\ [][/\ Len(settings') >= Len(settings)
          /\ \A i \in DOMAIN settings : settings'[i].hub_id = settings[i].hub_id
          /\ Len(settings') > Len(settings) =>
                \E q \in InFlight :
                    /\ q.pc = "create" /\ TookStep(q)
                    /\ \A i \in DOMAIN settings : settings[i].hub_id # q.hub
                    /\ settings' = Append(settings,
                          [hub_id |-> q.hub, company_name |-> "",
                           company_tax_id |-> "", company_address |-> "",
                           company_phone |-> "", company_email |-> "",
                           default_series_prefix |-> <<"F">>,
                           auto_generate_invoice |-> FALSE,
                           require_customer |-> TRUE,
                           invoice_footer |-> ""])]_vars

C27_Witness ==
    /\ Len(settings) = 2
    /\ settings[1].hub_id = 2 /\ settings[1].auto_generate_invoice
    /\ settings[2].hub_id = 1 /\ ~settings[2].auto_generate_invoice
    /\ \E q \in InFlight :
          /\ q.pc = "got" /\ q.hub = 2 /\ q.set_id = 1
          /\ q.settings_obj.auto_generate_invoice
    /\ \E q \in InFlight :
          /\ q.pc = "got" /\ q.hub = 1 /\ q.set_id = 2

\* C28: once a cancel request on a document has completed, the stored
\* status stays cancelled: no step of an issue request that loaded the
\* document while it was a draft changes the status of the cancelled
\* document or any next_number.
C28_LateIssue ==
    [][\A q \in InFlight :
          (/\ q.kind = "issue" /\ q.inv.status = "draft"
           /\ invoices[q.inv_id].status = "cancelled"
           /\ TookStep(q)) =>
              /\ invoices'[q.inv_id].status = "cancelled"
              /\ \A s \in DOMAIN series :
                    series'[s].next_number = series[s].next_number]_vars

\* C29: after any sequence of series creations, series edits, issues and
\* cancels, no two documents of one hub hold the same non-empty number,
\* whether they belong to the same series or to different ones.
C29_NumbersUniquePerHub ==
    \A a, b \in DOMAIN invoices :
        (/\ a # b
         /\ invoices[a].hub_id = invoices[b].hub_id
         /\ invoices[a].number # <<>>)
            => invoices[a].number # invoices[b].number

\* C30: in every state each non-deleted document references a non-deleted
\* series, also when series_delete and invoice_create run concurrently on
\* the same series.
C30_SeriesOfDocumentAlive ==
    \A d \in DOMAIN invoices :
        ~invoices[d].is_deleted => ~series[invoices[d].series].is_deleted

\* C31: number allocation and series_toggle change only the next_number,
\* respectively the is_active, of the series they are called on: every step
\* of an issue or series_toggle request leaves the is_default flag of every
\* series as it was, also when the instance in memory was loaded before
\* another series was made default.
C31_DefaultFlagFrame ==
    [][\A q \in InFlight :
          (q.kind \in {"issue", "series_toggle"} /\ TookStep(q)) =>
              \A s \in DOMAIN series :
                  /\ series'[s].is_default = series[s].is_default
                  /\ s # q.ser_id =>
                        /\ series'[s].next_number = series[s].next_number
                        /\ series'[s].is_active = series[s].is_active]_vars

\* the rows of tbl that do not belong to hub h, by pk
RowsOfOthers(tbl, h) == [i \in {j \in DOMAIN tbl : tbl[j].hub_id # h} |-> tbl[i]]

\* C32: tenant isolation: no step of a request made for hub A (issue,
\* cancel or delete of a document; edit, toggle, delete or set-default of a
\* series; a settings change) changes, adds or removes a document, line,
\* series (counter and default flag included) or settings row of another
\* hub, whatever pk the request named; and a request only ever holds rows
\* of its own hub.
C32_TenantIsolation ==
    /\ [][\A q \in InFlight :
             TookStep(q) =>
                 /\ RowsOfOthers(invoices', q.hub) = RowsOfOthers(invoices, q.hub)
                 /\ RowsOfOthers(lines', q.hub) = RowsOfOthers(lines, q.hub)
                 /\ RowsOfOthers(series', q.hub) = RowsOfOthers(series, q.hub)
                 /\ RowsOfOthers(settings', q.hub) = RowsOfOthers(settings, q.hub)]_vars
    /\ [][\A q2 \in BagToSet(reqs') :
             Started(q2) =>
                 /\ invoices' = invoices /\ lines' = lines
                 /\ series' = series /\ settings' = settings]_vars
    /\ [](\A q \in InFlight :
            /\ q.hub \in CreateHubs
            /\ q.inv_id # 0 => invoices[q.inv_id].hub_id = q.hub
            /\ q.ser_id # 0 => series[q.ser_id].hub_id = q.hub
            /\ q.set_id # 0 => settings[q.set_id].hub_id = q.hub)

C32_Witness ==
    /\ invoices[1].status = "cancelled" /\ invoices[1].number # <<>>
    /\ series[1].next_number = 2
    /\ Len(settings) = 2 /\ settings[2].hub_id = 1 /\ settings[2].auto_generate_invoice
    /\ invoices[2] = [StatusDoc("draft", 0) EXCEPT !.hub_id = 2, !.series = 2]
    /\ series[2] = NewSeries(2, <<"F">>, 6, TRUE)
    /\ settings[1] = NewSettings(2)
    /\ Len(lines) = 1

\* C33: invoice_delete soft-deletes only draft documents, so in every state
\* no deleted document holds a non-empty number.
C33_DeletedHasNoNumber ==
    \A d \in DOMAIN invoices :
        invoices[d].is_deleted => invoices[d].number = <<>>

\* the stored lines of document d, in the order of their creation
OwnLines(d) == SelectSeq(lines, LAMBDA l : l.invoice = d)

\* the first index the POST data has no line for
FirstMissing(post) ==
    CHOOSE n \in 0..(MaxLines + 2) :
        /\ \A i \in 1..n : i \in DOMAIN post
        /\ (n + 1) \notin DOMAIN post

\* line i of document d is the posted line of index i - 1
StoredAs(d, i, post) ==
    /\ OwnLines(d)[i].order = i - 1
    /\ OwnLines(d)[i].quantity = post[i].quantity
    /\ OwnLines(d)[i].unit_price = post[i].unit_price
    /\ OwnLines(d)[i].discount_percent = post[i].discount_percent

\* C34: when the loop of invoice_create has ended, the document holds
\* exactly the n lines posted at the indexes 0..n-1 below the first missing
\* index, line i with order = i, and no line posted after that index; while
\* the loop runs it holds the lines of the indexes it has passed.
C34_LinesInOrder ==
    \A q \in InFlight :
        (q.kind = "create" /\ q.pc \in {"lines", "totals"}) =>
            LET n == IF q.pc = "totals" THEN FirstMissing(q.post) ELSE q.line_idx
            IN /\ n <= FirstMissing(q.post)
               /\ Len(OwnLines(q.inv_id)) = n
               /\ \A i \in 1..n : StoredAs(q.inv_id, i, q.post)

C34_Witness ==
    \E q \in InFlight :
        /\ q.kind = "create" /\ q.pc = "totals"
        /\ q.post = (1 :> OrderLines[1]) @@ (3 :> OrderLines[3])
        /\ Len(OwnLines(q.inv_id)) = 1
        /\ \E d \in DOMAIN invoices :
              /\ Len(OwnLines(d)) = 2
              /\ OwnLines(d)[1].order = 0 /\ OwnLines(d)[1].quantity = Dec(2, 0)
              /\ OwnLines(d)[2].order = 1 /\ OwnLines(d)[2].quantity = Dec(1, 0)

\* the table with column f of row i set to v
WithColumn(tbl, i, f, v) ==
    [tbl EXCEPT ![i] = [c \in SettingsColumns |-> IF c = f THEN v ELSE @[c]]]

\* C35: served one after the other, a settings_toggle request naming a
\* field of its allowed set negates that field of the hub's settings row
\* and changes nothing else, so that a second one restores the value; a
\* settings_input request naming a field of its allowed set stores the
\* posted value in that field and changes nothing else; a request naming
\* any other field, or none, leaves the settings unchanged.
C35_NamedFieldOnly ==
    [][\A q \in InFlight :
          (q.kind \in {"settings_toggle", "settings_input"} /\ q.pc = "got" /\ TookStep(q)) =>
              /\ settings[q.set_id].hub_id = q.hub
              /\ IF q.kind = "settings_toggle"
                    /\ \E f \in {"auto_generate_invoice", "require_customer"} : q.fields = {f}
                 THEN \A f \in q.fields :
                        settings' = WithColumn(settings, q.set_id, f, ~settings[q.set_id][f])
                 ELSE IF q.kind = "settings_input"
                         /\ \E f \in {"company_name", "company_tax_id", "company_address",
                                       "company_phone", "company_email",
                                       "default_series_prefix", "invoice_footer"} :
                               q.fields = {f}
                 THEN \A f \in q.fields :
                        settings' = WithColumn(settings, q.set_id, f,
                                        IF f = "default_series_prefix"
                                        THEN (CASE q.value = "" -> <<>>
                                                [] q.value = "R" -> <<"R">>
                                                [] q.value = "ACME" -> <<"A", "C", "M", "E">>)
                                        ELSE q.value)
                 ELSE settings' = settings]_vars

\* a second settings_toggle of auto_generate_invoice has read the value the
\* first one stored, after a settings_input stored a company name
C35_Witness ==
    \E q \in InFlight :
        /\ q.kind = "settings_toggle" /\ q.pc = "got"
        /\ q.fields = {"auto_generate_invoice"}
        /\ settings[q.set_id].auto_generate_invoice
        /\ settings[q.set_id].company_name = "ACME"
        /\ settings[q.set_id].require_customer
        /\ settings[q.set_id].default_series_prefix = <<"F">>

====
